---- MODULE Spec2Model ----
(***************************************************************************)
(* A model of the spells-rs interpreter core.                              *)
(*                                                                         *)
(*   Spec      the scope arena of Context (src/src/context.rs) driven by   *)
(*             the evaluator: assignment, definition, call and return.     *)
(*   SpecRoll  dice resolution and the coercions of Value and Outcome      *)
(*             (src/src/value.rs, src/src/outcome.rs).                     *)
(*   SpecKeep  Outcome::keep applied to a list of rolls                    *)
(*             (src/src/outcome.rs).                                       *)
(*   SpecExpr  the combinators of Outcome applied to operands, as the      *)
(*             evaluator applies them walking an expression               *)
(*             (src/src/outcome.rs).                                       *)
(*   SpecLex   tokenise applied to a source text (src/src/token.rs).       *)
(*   SpecParse parse applied to a token list, and render, subtree and the  *)
(*             reading back of the rendered text                           *)
(*             (src/src/parser.rs, src/src/ast.rs).                        *)
(*   SpecShow  a Value is displayed and the text evaluated                 *)
(*             (src/src/value.rs, src/src/main.rs).                        *)
(*   SpecSyntax  Parser::parse on a token list, one step of its top-level  *)
(*             expression at a time (src/src/parser.rs).                   *)
(*   SpecTome  parse_tome on a token list, one round of its loop at a      *)
(*             time, run on until it returns (src/src/parser.rs).          *)
(*   SpecDump  a Context is saved with dump_to_string and loaded again     *)
(*             (src/src/context.rs, src/src/load.rs).                      *)
(*                                                                         *)
(* Scope index i of the Rust arena is position i + 1 of the sequence       *)
(* `scopes` (TLA+ sequences are 1-based); At(s, i) is `s.get(i)`.          *)
(***************************************************************************)
EXTENDS Integers, Sequences, FiniteSets, TLC

VARIABLES
    scopes,     \* Context.scopes: Vec<Scope>
    stack,      \* the evaluator's native call stack: one frame per evaluate() in progress
    err,        \* TRUE while an Err(..) is propagating to the caller (`?`)
    ev,         \* the Context operation performed by the last step, with its arguments
    oc,         \* the Outcome {value, rolls} an expression has evaluated to
    got,        \* what the last coercion returned
    drawn,      \* every RollOutcome drawn from the random source for this expression
    last,       \* the last operation applied to oc
    kin,        \* keep: the rolls of the left operand
    kn,         \* keep: the natural of the right operand
    kout,       \* keep: the outcome of the call
    operands,   \* the Outcomes evaluate() has returned and not yet combined
    comb,       \* the combinator applied by the last step, with its operands
    build,      \* whether the build has debug assertions
    text,       \* tokenise: the source text, a sequence of characters
    lexed,      \* tokenise: what the call returned
    source,     \* parse: the token list
    parsed,     \* parse: what the call returned
    rendered,   \* Ast::render of the parsed tree
    reparsed,   \* parse(tokenise(rendered))
    sub,        \* Ast::subtree of the parsed tree at some root
    shownOf,    \* the Value that is displayed
    shown,      \* its Display text
    back,       \* what evaluating the text returned
    parser,     \* parse, step by step: the Parser and where it is in its top-level expr
    tome,       \* parse_tome: the tokens left, the statements read, the Res returned
    dumped,     \* Context::dump_to_string: what the call returned
    loaded      \* load: the Context read back from the dumped text

ctxVars == <<scopes, stack, err, ev>>

rollVars == <<oc, got, drawn, last>>

keepVars == <<kin, kn, kout>>

exprVars == <<operands, comb>>

lexVars == <<build, text, lexed>>

parseVars == <<source, parsed, rendered, reparsed, sub>>

showVars == <<shownOf, shown, back>>

syntaxVars == <<parser, tome>>

dumpVars == <<dumped, loaded>>

vars == <<scopes, stack, err, ev, oc, got, drawn, last, kin, kn, kout,
          operands, comb, build, text, lexed,
          source, parsed, rendered, reparsed, sub, shownOf, shown, back,
          parser, tome, dumped, loaded>>

----------------------------------------------------------------------------
(* Bounds of the model.                                                    *)

MaxVal == 2         \* numeric values are 0..MaxVal
MaxScopes == 4      \* the arena never grows past this many scopes
MaxDepth == 3       \* evaluate() frames on the native stack
MaxQuantity == 2    \* roll literals have quantity 0..MaxQuantity
MaxDie == 2         \* and die 0..MaxDie
MaxLen == 4         \* keep is applied to lists of at most MaxLen rolls
MaxFace == 3        \* with faces 1..MaxFace
MaxNum == 8         \* arithmetic is applied to numbers of magnitude up to MaxNum
MaxText == 3        \* a text handed to tokenise has up to MaxText characters
MaxOps == 2         \* a chain handed to parse joins up to MaxOps + 1 operands
MaxStr == 3         \* a string that is displayed has up to MaxStr characters

----------------------------------------------------------------------------
(* Scopes and scope objects.                                               *)

NONE == -1                      \* usize::MAX, the parent of the root scope
GLOBAL_SCOPE == 0

VarNames == {"a", "b"}
FnNames == {"f", "g"}
Names == VarNames \cup FnNames

\* ScopeObject, plus the absence of a binding (kind "None").
NoObject == [kind |-> "None", val |-> 0, params |-> <<>>, body |-> <<>>]
ValueObject(v) == [kind |-> "Value", val |-> v, params |-> <<>>, body |-> <<>>]
FunctionObject(params, body) ==
    [kind |-> "Function", val |-> 0, params |-> params, body |-> body]

NewScope(parent) == [parent |-> parent, objects |-> [n \in Names |-> NoObject]]

NewContext == <<NewScope(NONE)>>

InArena(s, idx) == idx >= 0 /\ idx < Len(s)

At(s, idx) == s[idx + 1]

ContainsKey(scope, name) == scope.objects[name].kind # "None"

RECURSIVE Lookup(_, _, _)
Lookup(s, scope, name) ==
    IF ~InArena(s, scope) THEN NoObject
    ELSE IF ContainsKey(At(s, scope), name) THEN At(s, scope).objects[name]
    ELSE Lookup(s, At(s, scope).parent, name)

ChildScopeMut(s, parent) == Append(s, NewScope(GLOBAL_SCOPE))

ChildScope(s, parent) == Append(s, NewScope(parent))

RECURSIVE ScopeStack(_, _)
ScopeStack(s, idx) ==
    IF idx = NONE \/ ~InArena(s, idx) THEN <<>>
    ELSE <<idx>> \o ScopeStack(s, At(s, idx).parent)

GetVariable(s, scope, name) ==
    LET obj == Lookup(s, scope, name)
    IN IF obj.kind = "Value" THEN obj ELSE NoObject

SetVariableMut(s, scope, name, value) ==
    [s EXCEPT ![GLOBAL_SCOPE + 1].objects[name] = ValueObject(value)]

\* The loop walks the ancestor chain with `idx` but tests
\* `self.scopes.get_mut(scope)`, the originating scope, on every iteration.
SetVariable(s, scope, name, value) ==
    LET chain == ScopeStack(s, scope)
        hits == {k \in 1..Len(chain) :
                    InArena(s, scope) /\ ContainsKey(At(s, scope), name)}
        set_scope == IF hits = {} THEN scope
                     ELSE chain[CHOOSE k \in hits : \A j \in hits : k <= j]
    IN [s EXCEPT ![set_scope + 1].objects[name] = ValueObject(value)]

GetFunction(s, scope, name) ==
    LET obj == Lookup(s, scope, name)
    IN IF obj.kind = "Function" THEN obj ELSE NoObject

DefineFunction(s, scope, name, body, params) ==
    [s EXCEPT ![scope + 1].objects[name] = FunctionObject(params, body)]

PopScopeMut(s) == SubSeq(s, 1, Len(s) - 2)

PopScope(s) == SubSeq(s, 1, Len(s) - 1)

CheckArgumentCount(count, args) == count = Len(args)

BindParametersMut(s, func_scope, params, args) ==
    IF params = <<>> \/ args = <<>> THEN s
    ELSE SetVariable(s, At(s, func_scope).parent, Head(params), Head(args))

\* for (name, value) in function.parameters.iter().zip(args)
RECURSIVE BindParameters(_, _, _, _)
BindParameters(s, func_scope, params, args) ==
    IF params = <<>> \/ args = <<>> THEN s
    ELSE BindParameters(SetVariable(s, func_scope, Head(params), Head(args)),
                        func_scope, Tail(params), Tail(args))

----------------------------------------------------------------------------
(* Values, dice resolution and coercions.                                  *)

Roll(quantity, die, advantage, disadvantage) ==
    [quantity |-> quantity, die |-> die,
     advantage |-> advantage, disadvantage |-> disadvantage]

NoRoll == Roll(0, 0, FALSE, FALSE)

RollOutcome(roll, rolls, result) == [roll |-> roll, rolls |-> rolls, result |-> result]

\* enum Value, restricted to the variants dice expressions produce.
ValueEmpty == [tag |-> "Empty", roll |-> NoRoll, rolls |-> <<>>, result |-> 0]
ValueRoll(roll) == [tag |-> "Roll", roll |-> roll, rolls |-> <<>>, result |-> 0]
ValueRolls(rolls) == [tag |-> "Rolls", roll |-> NoRoll, rolls |-> rolls, result |-> 0]
ValueNatural(n) == [tag |-> "Natural", roll |-> NoRoll, rolls |-> <<>>, result |-> n]
ValueOutcome(o) == [tag |-> "Outcome", roll |-> o.roll, rolls |-> o.rolls, result |-> o.result]
\* Bool(v), result 1 for true; Decimal(v) for the whole numbers v; String(s),
\* its characters in chars; List(values), its elements in items.
ValueBool(v) == [tag |-> "Bool", roll |-> NoRoll, rolls |-> <<>>, result |-> IF v THEN 1 ELSE 0]
ValueDecimal(v) == [tag |-> "Decimal", roll |-> NoRoll, rolls |-> <<>>, result |-> v]
ValueString(s) ==
    [tag |-> "String", roll |-> NoRoll, rolls |-> <<>>, result |-> 0, chars |-> s]
ValueList(values) ==
    [tag |-> "List", roll |-> NoRoll, rolls |-> <<>>, result |-> 0, items |-> values]

\* The RollOutcome carried by a Value::Outcome.
OutcomeIn(v) == RollOutcome(v.roll, v.rolls, v.result)

\* struct Outcome and Outcome::new
OutcomeOf(value, rolls) == [value |-> value, rolls |-> rolls]
NewOutcome(value) == OutcomeOf(value, <<>>)

\* Res<T> of a coercion: the number or the list returned, and the
\* RollOutcomes drawn on the way.  A panic is neither Ok nor Err.
Ret(status, num, list, draws) ==
    [status |-> status, num |-> num, list |-> list, draws |-> draws]
NoRet == Ret("none", 0, <<>>, <<>>)
Ok(num, list, draws) == Ret("ok", num, list, draws)
Err == Ret("err", 0, <<>>, <<>>)
Panic == Ret("panic", 0, <<>>, <<>>)

RECURSIVE Sum(_)
Sum(seq) == IF seq = <<>> THEN 0 ELSE Head(seq) + Sum(Tail(seq))

Max2(x, y) == IF x >= y THEN x ELSE y

\* The random source: the raw words the generator will hand out next.
RngLen == Max2(MaxQuantity, 2)
Rngs == [1..RngLen -> 0..(Max2(MaxDie, 1) - 1)]

\* rand::Rng::gen_range(rng, 1..=die), for die >= 1
GenRange(raw, die) == 1 + (raw % die)

OutcomeMut(v, rng) ==
    IF v.tag = "Outcome" THEN [status |-> "ok", outcome |-> OutcomeIn(v), drew |-> FALSE]
    ELSE IF v.tag # "Roll" THEN [status |-> "err", outcome |-> OutcomeIn(v), drew |-> FALSE]
    ELSE LET roll == v.roll
             one == roll.advantage # roll.disadvantage
             quantity == roll.quantity
             die == roll.die
         IN IF quantity > 0 /\ die = 0
            THEN [status |-> "panic", outcome |-> OutcomeIn(v), drew |-> FALSE]
            ELSE LET values == [i \in 1..quantity |-> GenRange(rng[i], die)]
                     result == IF one /\ values # <<>>
                               THEN IF roll.advantage THEN values[Len(values)]
                                    ELSE values[1]
                               ELSE Sum(values)
                 IN [status |-> "ok", outcome |-> RollOutcome(roll, values, result),
                     drew |-> TRUE]

\* Value::outcome.  `sorted` is computed and dropped: the result of an
\* advantage roll is values.last() and of a disadvantage roll values.first(),
\* of the dice in the order drawn.  gen_range panics on the empty range 1..=0.
Outcome(v, rng) ==
    IF v.tag = "Outcome" THEN [status |-> "ok", outcome |-> OutcomeIn(v), drew |-> FALSE]
    ELSE IF v.tag # "Roll" THEN [status |-> "err", outcome |-> OutcomeIn(v), drew |-> FALSE]
    ELSE LET roll == v.roll
             one == roll.advantage # roll.disadvantage
             quantity == IF one THEN Max2(roll.quantity, 2) ELSE roll.quantity
             die == roll.die
         IN IF quantity > 0 /\ die = 0
            THEN [status |-> "panic", outcome |-> OutcomeIn(v), drew |-> FALSE]
            ELSE LET values == [i \in 1..quantity |-> GenRange(rng[i], die)]
                     result == IF one
                               THEN IF roll.advantage THEN values[Len(values)]
                                    ELSE values[1]
                               ELSE Sum(values)
                 IN [status |-> "ok", outcome |-> RollOutcome(roll, values, result),
                     drew |-> TRUE]

Draws(res) == IF res.drew THEN <<res.outcome>> ELSE <<>>

\* The random source after the dice of `draws` have been drawn from it.
Skip(rng, draws) ==
    LET used == Sum([i \in 1..Len(draws) |-> Len(draws[i].rolls)])
        n == Cardinality(DOMAIN rng)
    IN [i \in 1..n |-> rng[((i + used - 1) % n) + 1]]

\* Value::bool
ValueBoolOf(v) ==
    CASE v.tag = "Bool" -> Ok(v.result, <<>>, <<>>)
      [] v.tag = "Natural" -> Ok(IF v.result # 0 THEN 1 ELSE 0, <<>>, <<>>)
      [] v.tag = "List" -> Ok(IF v.items # <<>> THEN 1 ELSE 0, <<>>, <<>>)
      [] v.tag = "String" -> Ok(IF v.chars # <<>> THEN 1 ELSE 0, <<>>, <<>>)
      [] OTHER -> Err

\* Value::rolls
ValueRollsOf(v, rng) ==
    CASE v.tag = "Roll" ->
            LET res == Outcome(v, rng)
            IN IF res.status = "ok" THEN Ok(0, res.outcome.rolls, Draws(res))
               ELSE Ret(res.status, 0, <<>>, <<>>)
      [] v.tag = "Rolls" -> Ok(0, v.rolls, <<>>)
      [] v.tag = "Outcome" -> Ok(0, v.rolls, <<>>)
      [] OTHER -> Err

\* Value::natural, of a value that is not a List
ScalarNaturalOf(v, rng) ==
    CASE v.tag = "Natural" -> Ok(v.result, <<>>, <<>>)
      [] v.tag = "Decimal" -> Ok(v.result, <<>>, <<>>)
      [] v.tag = "Outcome" -> Ok(v.result, <<>>, <<>>)
      [] v.tag = "Roll" ->
            LET res == Outcome(v, rng)
            IN IF res.status = "ok" THEN Ok(res.outcome.result, <<>>, Draws(res))
               ELSE Ret(res.status, 0, <<>>, <<>>)
      [] v.tag = "Rolls" -> Ok(Sum(v.rolls), <<>>, <<>>)
      [] OTHER -> Err

\* Value::decimal, of a value that is not a List.  A Roll goes through
\* Self::Rolls(self.rolls()?).decimal(), the sum of the dice drawn.
ScalarDecimalOf(v, rng) ==
    CASE v.tag = "Natural" -> Ok(v.result, <<>>, <<>>)
      [] v.tag = "Decimal" -> Ok(v.result, <<>>, <<>>)
      [] v.tag = "Roll" ->
            LET rolls == ValueRollsOf(v, rng)
            IN IF rolls.status = "ok" THEN Ok(Sum(rolls.list), <<>>, rolls.draws)
               ELSE rolls
      [] v.tag = "Rolls" -> Ok(Sum(v.rolls), <<>>, <<>>)
      [] v.tag = "Outcome" -> Ok(v.result, <<>>, <<>>)
      [] OTHER -> Err

\* The List arms of Value::natural (f = "natural") and Value::decimal: the
\* loop over the elements, `total` so far, each element coerced in turn by
\* value.natural() or value.decimal().  The lists of the model hold no lists.
RECURSIVE SumList(_, _, _, _, _)
SumList(f, values, rng, total, draws) ==
    IF values = <<>> THEN Ok(total, <<>>, draws)
    ELSE LET Added(r) ==
                 IF r.status # "ok" THEN Ret(r.status, 0, <<>>, draws)
                 ELSE SumList(f, Tail(values), Skip(rng, r.draws),
                              total + r.num, draws \o r.draws)
         IN Added(IF f = "natural" THEN ScalarNaturalOf(Head(values), rng)
                  ELSE ScalarDecimalOf(Head(values), rng))

\* Value::natural
ValueNaturalOf(v, rng) ==
    IF v.tag = "List" THEN SumList("natural", v.items, rng, 0, <<>>)
    ELSE ScalarNaturalOf(v, rng)

\* Value::decimal
ValueDecimalOf(v, rng) ==
    IF v.tag = "List" THEN SumList("decimal", v.items, rng, 0, <<>>)
    ELSE ScalarDecimalOf(v, rng)

Coercions == {"rolls", "natural", "decimal"}

Coerce(f, v, rng) ==
    CASE f = "rolls" -> ValueRollsOf(v, rng)
      [] f = "natural" -> ValueNaturalOf(v, rng)
      [] f = "decimal" -> ValueDecimalOf(v, rng)
      [] f = "bool" -> ValueBoolOf(v)

ResolveForMut(o, f, rng) ==
    LET isRoll == o.value.tag = "Roll"
        res == Outcome(o.value, rng)
    IN IF isRoll /\ res.status # "ok"
       THEN [self |-> o, ret |-> Ret(res.status, 0, <<>>, <<>>)]
       ELSE LET self == IF isRoll
                        THEN OutcomeOf(o.value, Append(o.rolls, res.outcome))
                        ELSE o
                ret == Coerce(f, self.value, rng)
            IN [self |-> self,
                ret |-> [ret EXCEPT !.draws = (IF isRoll THEN Draws(res) ELSE <<>>) \o @]]

\* Outcome::resolve_for: the Outcome handed back and the value of f.
Resolved(o, res) ==
    IF o.value.tag = "Roll"
    THEN OutcomeOf(ValueOutcome(res.outcome), Append(o.rolls, res.outcome))
    ELSE o

Coerced(self, ret, drew) == [self |-> self, ret |-> [ret EXCEPT !.draws = drew \o @]]

ResolveWith(o, f, rng, res) ==
    IF o.value.tag = "Roll" /\ res.status # "ok"
    THEN [self |-> o, ret |-> Ret(res.status, 0, <<>>, <<>>)]
    ELSE Coerced(Resolved(o, res), Coerce(f, Resolved(o, res).value, rng),
                 IF o.value.tag = "Roll" THEN Draws(res) ELSE <<>>)

ResolveFor(o, f, rng) == ResolveWith(o, f, rng, Outcome(o.value, rng))

Op(name, level, fromRoll) == [name |-> name, level |-> level, fromRoll |-> fromRoll]
NoOp == Op("none", "", FALSE)

RollIdle ==
    /\ oc = NewOutcome(ValueEmpty)
    /\ got = NoRet
    /\ drawn = <<>>
    /\ last = NoOp

----------------------------------------------------------------------------
(* Outcome::keep.                                                          *)

RemoveAt(seq, i) == SubSeq(seq, 1, i - 1) \o SubSeq(seq, i + 1, Len(seq))

\* Option<(usize, u64)>; positions are 1-based here.
None == [some |-> FALSE, i |-> 0, v |-> 0]
Some(i, v) == [some |-> TRUE, i |-> i, v |-> v]

KeepResult(status, values) == [status |-> status, values |-> values]
NoKeep == KeepResult("none", <<>>)

\* for (i, v) in values.iter().enumerate() { .. }
RECURSIVE ScanFrom(_, _, _)
ScanFrom(values, i, smallest) ==
    IF i > Len(values) THEN smallest
    ELSE ScanFrom(values, i + 1,
                  IF ~smallest.some THEN Some(i, values[i])
                  ELSE IF smallest.v > values[i] THEN Some(i, values[i])
                  ELSE smallest)

\* while to_remove > 0 { .. }: `smallest` is declared outside the loop and
\* keeps the position and value found in earlier rounds; Vec::remove panics
\* when the position is past the end.
RECURSIVE KeepLoop(_, _, _)
KeepLoop(values, to_remove, smallest) ==
    IF to_remove = 0 THEN KeepResult("ok", values)
    ELSE LET found == ScanFrom(values, 1, smallest)
         IN IF ~found.some THEN KeepLoop(values, to_remove - 1, found)
            ELSE IF found.i > Len(values) THEN KeepResult("panic", values)
            ELSE KeepLoop(RemoveAt(values, found.i), to_remove - 1, found)

\* The body of keep after the coercions, for a count n >= 0 (on which
\* `keep as usize` is the identity).
KeepValues(values, keep) ==
    IF keep < Len(values) THEN KeepLoop(values, Len(values) - keep, None)
    ELSE KeepResult("ok", values)

KeepInputs == UNION {[1..n -> 1..MaxFace] : n \in 0..MaxLen}

KeepIdle ==
    /\ kin = <<>>
    /\ kn = 0
    /\ kout = NoKeep

----------------------------------------------------------------------------
(* What the variables of the front end hold while it is not exercised.     *)

\* No combinator has been applied.
Comb(kind, name, status, lhs, rhs, drewL, drewR) ==
    [kind |-> kind, name |-> name, status |-> status, lhs |-> lhs, rhs |-> rhs,
     drewL |-> drewL, drewR |-> drewR]
NoComb ==
    Comb("none", "", "ok", NewOutcome(ValueEmpty), NewOutcome(ValueEmpty), <<>>, <<>>)

\* A call that has not been made.
NotCalled == [status |-> "none"]

ExprIdle ==
    /\ operands = <<>>
    /\ comb = NoComb

LexIdle ==
    /\ build = "release"
    /\ text = <<>>
    /\ lexed = NotCalled

ParseIdle ==
    /\ source = <<>>
    /\ parsed = NotCalled
    /\ rendered = NotCalled
    /\ reparsed = NotCalled
    /\ sub = NotCalled

ShowIdle ==
    /\ shownOf = ValueEmpty
    /\ shown = NotCalled
    /\ back = NotCalled

SyntaxIdle ==
    /\ parser = NotCalled
    /\ tome = NotCalled

DumpIdle ==
    /\ dumped = NotCalled
    /\ loaded = NotCalled

----------------------------------------------------------------------------
(* The evaluator.  A statement is one node of the AST the evaluator walks: *)
(*   assign  name = n            or  name = name + 1                       *)
(*   def     name(params) = body                                           *)
(*   call    name(args)                                                    *)
(* and a body is statements joined by the Discard operator `;`, evaluated  *)
(* left to right, the first Err ending the evaluation.  Each evaluation    *)
(* runs in the scope it is handed: GLOBAL_SCOPE from eval() (main.rs),     *)
(* func_scope from Context::call (context.rs).                             *)

Stmt(op, name, rhs, n, args, params, body) ==
    [op |-> op, name |-> name, rhs |-> rhs, n |-> n,
     args |-> args, params |-> params, body |-> body]

SetTo(name, n) == Stmt("assign", name, "const", n, <<>>, <<>>, <<>>)
Incr(name) == Stmt("assign", name, "plus1", 0, <<>>, <<>>, <<>>)
CallOf(name, args) == Stmt("call", name, "", 0, args, <<>>, <<>>)
Def(name, params, body) == Stmt("def", name, "", 0, <<>>, params, body)

\* incr() = a = a + 1; b = b + 1
IncrBody == <<Incr("a"), Incr("b")>>
\* b = 1
SetBody == <<SetTo("b", 1)>>
\* g()
CallGBody == <<CallOf("g", <<>>)>>
\* g(1)
CallG1Body == <<CallOf("g", <<1>>)>>

Definitions ==
    { Def("f", <<>>, IncrBody),
      Def("f", <<"a">>, CallGBody),
      Def("f", <<>>, CallG1Body),
      Def("g", <<>>, SetBody),
      Def("g", <<>>, IncrBody) }

\* The statements typed at the prompt.
TopLevel ==
    Definitions
    \cup { SetTo(n, v) : n \in VarNames, v \in 1..2 }
    \cup { CallOf(n, a) : n \in FnNames, a \in {<<>>, <<1>>} }

Parents(s) == [i \in 1..Len(s) |-> s[i].parent]

Frame(scope, body, call, before) ==
    [scope |-> scope, body |-> body, pc |-> 1, call |-> call, before |-> before]

Event(kind, scope, name, val, ok, before) ==
    [kind |-> kind, scope |-> scope, name |-> name, val |-> val,
     ok |-> ok, before |-> before, bound |-> ""]

NoEvent == Event("none", 0, "", 0, TRUE, <<>>)

\* Where a name is bound, seen from a scope: in the scope itself, in a proper
\* ancestor only, or nowhere on the chain to the root.
BoundWhere(s, scope, name) ==
    IF ContainsKey(At(s, scope), name) THEN "local"
    ELSE IF Lookup(s, scope, name).kind # "None" THEN "ancestor"
    ELSE "nowhere"

\* The nearest scope on the chain from `scope` to the root that binds `name`.
RECURSIVE NearestHolder(_, _, _)
NearestHolder(s, scope, name) ==
    IF ~InArena(s, scope) THEN NONE
    ELSE IF ContainsKey(At(s, scope), name) THEN scope
    ELSE NearestHolder(s, At(s, scope).parent, name)

Cur == stack[Len(stack)]

Running == stack # <<>> /\ ~err /\ Cur.pc <= Len(Cur.body)

Finished == stack # <<>> /\ (err \/ Cur.pc > Len(Cur.body))

St == Cur.body[Cur.pc]

Advance(stk) == [stk EXCEPT ![Len(stk)].pc = @ + 1]

\* variable(): the value bound to the name, else a zero-argument call of the
\* name, which for a name that is no function reaches builtins::call and
\* fails, so the read fails with "Undefined variable".
Variable(s, scope, name) == GetVariable(s, scope, name)

\* The right-hand side of an assignment: a literal, or name + 1.
Rhs(s, scope, st) ==
    IF st.rhs = "const" THEN ValueObject(st.n)
    ELSE LET v == Variable(s, scope, st.name)
         IN IF v.kind = "Value" THEN ValueObject(v.val + 1) ELSE NoObject

Init ==
    /\ scopes = NewContext
    /\ stack = <<>>
    /\ err = FALSE
    /\ ev = NoEvent
    /\ RollIdle
    /\ KeepIdle
    /\ ExprIdle
    /\ LexIdle
    /\ ParseIdle
    /\ ShowIdle
    /\ SyntaxIdle
    /\ DumpIdle

\* While the scope arena is exercised no dice expression is in progress.
CtxFrame == UNCHANGED <<rollVars, keepVars, exprVars, lexVars, parseVars, showVars, syntaxVars, dumpVars>>

\* eval(): evaluate(&parse(input)?, context, Context::GLOBAL_SCOPE)
Statement(st) ==
    /\ stack = <<>>
    /\ stack' = <<Frame(GLOBAL_SCOPE, <<st>>, FALSE, Parents(scopes))>>
    /\ err' = FALSE
    /\ ev' = NoEvent
    /\ UNCHANGED scopes
    /\ CtxFrame

\* assign(): evaluate the definition, then context.set_variable.
Assign ==
    /\ Running
    /\ St.op = "assign"
    /\ LET value == Rhs(scopes, Cur.scope, St)
       IN IF value.kind = "Value"
          THEN /\ value.val <= MaxVal
               /\ scopes' = SetVariable(scopes, Cur.scope, St.name, value.val)
               /\ stack' = Advance(stack)
               /\ err' = FALSE
               /\ ev' = [Event("set_variable", Cur.scope, St.name, value.val,
                               TRUE, Parents(scopes))
                          EXCEPT !.bound = BoundWhere(scopes, Cur.scope, St.name)]
          ELSE /\ err' = TRUE
               /\ ev' = Event("error", Cur.scope, St.name, 0, FALSE, Parents(scopes))
               /\ UNCHANGED <<scopes, stack>>
    /\ CtxFrame

\* define(): context.define_function in the scope being evaluated.
Define ==
    /\ Running
    /\ St.op = "def"
    /\ scopes' = DefineFunction(scopes, Cur.scope, St.name, St.body, St.params)
    /\ stack' = Advance(stack)
    /\ ev' = Event("define_function", Cur.scope, St.name, 0, TRUE, Parents(scopes))
    /\ UNCHANGED err
    /\ CtxFrame

\* Context::call up to the evaluation of the body.
Call ==
    /\ Running
    /\ St.op = "call"
    /\ LET function == GetFunction(scopes, Cur.scope, St.name)
           func_scope == Len(scopes)
           pushed == ChildScope(scopes, Cur.scope)
       IN IF function.kind # "Function"
          THEN \* builtins::call: "Undefined function"
               /\ err' = TRUE
               /\ ev' = Event("builtin", Cur.scope, St.name, 0, FALSE, Parents(scopes))
               /\ UNCHANGED <<scopes, stack>>
          ELSE /\ Len(scopes) < MaxScopes
               /\ Len(stack) < MaxDepth
               /\ IF ~CheckArgumentCount(Len(function.params), St.args)
                  THEN \* check_argument_count(..)? returns before the pop
                       /\ scopes' = pushed
                       /\ err' = TRUE
                       /\ ev' = Event("return", Cur.scope, St.name, 0, FALSE,
                                      Parents(scopes))
                       /\ UNCHANGED stack
                  ELSE /\ scopes' = BindParameters(pushed, func_scope,
                                                   function.params, St.args)
                       /\ stack' = Append(stack, Frame(func_scope, function.body,
                                                       TRUE, Parents(scopes)))
                       /\ ev' = Event("call", Cur.scope, St.name, func_scope, TRUE,
                                      Parents(scopes))
                       /\ UNCHANGED err
    /\ CtxFrame

\* Context::call after the body: self.scopes.pop(); ret
Return ==
    /\ Finished
    /\ Cur.call
    /\ scopes' = PopScope(scopes)
    /\ stack' = LET rest == SubSeq(stack, 1, Len(stack) - 1)
                IN IF err THEN rest ELSE Advance(rest)
    /\ ev' = Event("return", stack[Len(stack) - 1].scope, "", 0, ~err, Cur.before)
    /\ UNCHANGED err
    /\ CtxFrame

\* The top-level evaluate() returns to the prompt; the Context is kept.
Finish ==
    /\ Finished
    /\ ~Cur.call
    /\ stack' = <<>>
    /\ err' = FALSE
    /\ ev' = NoEvent
    /\ UNCHANGED scopes
    /\ CtxFrame

Next ==
    \/ \E st \in TopLevel : Statement(st)
    \/ Assign
    \/ Define
    \/ Call
    \/ Return
    \/ Finish

Spec == Init /\ [][Next]_vars

----------------------------------------------------------------------------
(* Properties of the scope arena.                                          *)

\* C1 (as claimed): set_variable(scope, name, value), when name is not bound
\* in `scope` but is bound in an ancestor, overwrites the binding in the
\* nearest such ancestor and creates no binding in `scope`.
C1_SetVariableReachesAncestor ==
    [][(ev'.kind = "set_variable" /\ ev'.bound = "ancestor") =>
         LET holder == NearestHolder(scopes, ev'.scope, ev'.name)
         IN /\ At(scopes', holder).objects[ev'.name] = ValueObject(ev'.val)
            /\ ~ContainsKey(At(scopes', ev'.scope), ev'.name)]_vars

\* C2: set_variable(scope, name, value), when name is bound nowhere on the
\* chain from `scope` to the root, binds name to value in `scope` and changes
\* nothing else: the arena has the same scopes, every other scope is
\* unchanged, and so are the parent and the other objects of `scope`.
C2_SetVariableDeclaresInScope ==
    [][(ev'.kind = "set_variable" /\ ev'.bound = "nowhere") =>
         /\ Len(scopes') = Len(scopes)
         /\ At(scopes', ev'.scope).objects[ev'.name] = ValueObject(ev'.val)
         /\ At(scopes', ev'.scope).parent = At(scopes, ev'.scope).parent
         /\ \A n \in Names \ {ev'.name} :
               At(scopes', ev'.scope).objects[n] = At(scopes, ev'.scope).objects[n]
         /\ \A i \in 0..(Len(scopes) - 1) :
               i # ev'.scope => At(scopes', i) = At(scopes, i)]_vars

\* A first assignment made inside a function's child scope while the root
\* scope holds other bindings.
C2_Witness ==
    /\ ev.kind = "set_variable"
    /\ ev.bound = "nowhere"
    /\ ev.scope # GLOBAL_SCOPE
    /\ At(scopes, ev.scope).objects[ev.name] = ValueObject(ev.val)
    /\ \E n \in VarNames : ContainsKey(At(scopes, GLOBAL_SCOPE), n)

\* C3 (as claimed): the child scope created by call has as parent the scope
\* in which the function was defined, so the body resolves every name it
\* does not bind itself as the defining scope does.
C3_ChildOfDefiningScope ==
    [][ev'.kind = "call" =>
         LET defining == NearestHolder(scopes, ev'.scope, ev'.name)
         IN /\ At(scopes', ev'.val).parent = defining
            /\ \A n \in Names :
                  ~ContainsKey(At(scopes', ev'.val), n) =>
                     Lookup(scopes', ev'.val, n) = Lookup(scopes, defining, n)]_vars

\* C3 (amended): the child scope created by call has as parent the scope the
\* call was made from, so the body resolves every name it does not bind
\* itself as the caller does, the caller's parameters and locals included.
C3_ChildOfCallerScope ==
    [][ev'.kind = "call" =>
         /\ Len(scopes') = Len(scopes) + 1
         /\ ev'.val = Len(scopes)
         /\ At(scopes', ev'.val).parent = ev'.scope
         /\ \A n \in Names :
               ~ContainsKey(At(scopes', ev'.val), n) =>
                  Lookup(scopes', ev'.val, n) = Lookup(scopes, ev'.scope, n)]_vars

\* A function defined in the root scope has been called from inside another
\* function's child scope, and reads a parameter of its caller.
C3_Witness ==
    /\ ev.kind = "call"
    /\ ev.scope # GLOBAL_SCOPE
    /\ NearestHolder(scopes, ev.scope, ev.name) = GLOBAL_SCOPE
    /\ \E n \in VarNames :
          /\ At(scopes, ev.scope).objects[n].kind = "Value"
          /\ ~ContainsKey(At(scopes, ev.val), n)
          /\ ~ContainsKey(At(scopes, GLOBAL_SCOPE), n)
          /\ GetVariable(scopes, ev.val, n) = At(scopes, ev.scope).objects[n]

\* C4 (as claimed): when a call of a user-defined function has returned,
\* with a value or with an error, the arena has exactly the scopes it had
\* before the call.
C4_CallRestoresArena ==
    ev.kind = "return" => Parents(scopes) = ev.before

\* C5: scope 0 exists and has the NONE parent in every reachable state, so no
\* sequence of assignments, definitions and calls, failing or not, pops it.
C5_RootScopeKept ==
    /\ Len(scopes) >= 1
    /\ At(scopes, GLOBAL_SCOPE).parent = NONE

\* A call has failed and its error has reached the top-level evaluation.
C5_Witness ==
    /\ ev.kind = "return"
    /\ ~ev.ok
    /\ Len(stack) = 1
    /\ At(scopes, GLOBAL_SCOPE).parent = NONE

\* C28: a call of a user-defined function binds each argument under its
\* parameter's name in the new child scope and changes no scope that existed
\* before, so the body reads the argument under that name even when an
\* ancestor binds it too; and no step changes what a scope binds to a name
\* except an assignment to, or a definition of, that very name.
C28_ArgumentsBoundInChild ==
    [][/\ ev'.kind = "call" =>
            LET params == GetFunction(scopes, ev'.scope, ev'.name).params
            IN /\ Len(scopes') = Len(scopes) + 1
               /\ \A j \in 0..(Len(scopes) - 1) : At(scopes', j) = At(scopes, j)
               /\ \A i \in 1..Len(params) :
                     /\ At(scopes', ev'.val).objects[params[i]] = ValueObject(St.args[i])
                     /\ GetVariable(scopes', ev'.val, params[i]) = ValueObject(St.args[i])
       /\ \A j \in 0..(Len(scopes) - 1), n \in Names :
             (j < Len(scopes') /\ At(scopes', j).objects[n] # At(scopes, j).objects[n]) =>
                 /\ ev'.kind \in {"set_variable", "define_function"}
                 /\ ev'.name = n]_vars

\* A function has been called with an argument for a parameter whose name
\* the root scope binds to another value: the child scope holds the
\* argument, the root its own value.
C28_Witness ==
    /\ ev.kind = "call"
    /\ \E n \in VarNames :
          /\ At(scopes, GLOBAL_SCOPE).objects[n].kind = "Value"
          /\ At(scopes, ev.val).objects[n].kind = "Value"
          /\ At(scopes, ev.val).objects[n] # At(scopes, GLOBAL_SCOPE).objects[n]
          /\ GetVariable(scopes, ev.val, n) = At(scopes, ev.val).objects[n]

----------------------------------------------------------------------------
(* SpecRoll: a dice expression is evaluated to an Outcome, which is then   *)
(* coerced, by the operators of Outcome (resolve_for) or, as the builtins  *)
(* and list sums do, by the coercions of Value on the bare value.          *)

InitRoll ==
    /\ scopes = NewContext
    /\ stack = <<>>
    /\ err = FALSE
    /\ ev = NoEvent
    /\ RollIdle
    /\ KeepIdle
    /\ ExprIdle
    /\ LexIdle
    /\ ParseIdle
    /\ ShowIdle
    /\ SyntaxIdle
    /\ DumpIdle

RollFrame == UNCHANGED <<ctxVars, keepVars, exprVars, lexVars, parseVars, showVars, syntaxVars, dumpVars>>

Crashed == last.name = "panic"

\* evaluate(): Node::Value(val) => Ok(Outcome::new(val.clone())), for a roll literal
RollLiteral(q, d) ==
    /\ ~Crashed
    /\ oc' = NewOutcome(ValueRoll(Roll(q, d, FALSE, FALSE)))
    /\ got' = NoRet
    /\ drawn' = <<>>
    /\ last' = Op("literal", "", FALSE)
    /\ RollFrame

\* Outcome::adv
Adv ==
    /\ ~Crashed
    /\ oc.value.tag # "Empty"
    /\ IF oc.value.tag = "Roll"
       THEN /\ oc' = OutcomeOf(ValueRoll([oc.value.roll EXCEPT !.advantage = TRUE]),
                               oc.rolls)
            /\ got' = NoRet
       ELSE /\ oc' = NewOutcome(ValueEmpty)
            /\ got' = Err
    /\ last' = Op("adv", "", oc.value.tag = "Roll")
    /\ UNCHANGED drawn
    /\ RollFrame

\* Outcome::disadv
Disadv ==
    /\ ~Crashed
    /\ oc.value.tag # "Empty"
    /\ IF oc.value.tag = "Roll"
       THEN /\ oc' = OutcomeOf(ValueRoll([oc.value.roll EXCEPT !.disadvantage = TRUE]),
                               oc.rolls)
            /\ got' = NoRet
       ELSE /\ oc' = NewOutcome(ValueEmpty)
            /\ got' = Err
    /\ last' = Op("disadv", "", oc.value.tag = "Roll")
    /\ UNCHANGED drawn
    /\ RollFrame

\* Outcome::rolls / natural / decimal: self.resolve_for(Value::f)
OutcomeCoerce(f, rng) ==
    /\ ~Crashed
    /\ oc.value.tag # "Empty"
    /\ LET r == ResolveFor(oc, f, rng)
       IN /\ got' = r.ret
          /\ drawn' = drawn \o r.ret.draws
          /\ oc' = IF r.ret.status = "ok" THEN r.self ELSE NewOutcome(ValueEmpty)
          /\ last' = IF r.ret.status = "panic" THEN Op("panic", "Outcome", TRUE)
                     ELSE Op(f, "Outcome", oc.value.tag = "Roll")
    /\ RollFrame

\* Value::natural / Value::decimal on the value itself, which is consumed:
\* BuiltinCall::pop_natural / pop_decimal, and the List arms of the coercions.
ValueCoerce(f, rng) ==
    /\ ~Crashed
    /\ oc.value.tag # "Empty"
    /\ LET r == Coerce(f, oc.value, rng)
       IN /\ got' = r
          /\ drawn' = drawn \o r.draws
          /\ oc' = NewOutcome(ValueEmpty)
          /\ last' = IF r.status = "panic" THEN Op("panic", "Value", TRUE)
                     ELSE Op(f, "Value", oc.value.tag = "Roll")
    /\ RollFrame

NextRoll ==
    \/ \E q \in 0..MaxQuantity, d \in 0..MaxDie : RollLiteral(q, d)
    \/ Adv
    \/ Disadv
    \/ \E f \in Coercions, rng \in Rngs : OutcomeCoerce(f, rng)
    \/ \E f \in {"natural", "decimal"}, rng \in Rngs : ValueCoerce(f, rng)

SpecRoll == InitRoll /\ [][NextRoll]_vars

----------------------------------------------------------------------------
(* Properties of dice resolution.                                          *)

Range(seq) == {seq[i] : i \in 1..Len(seq)}
MaxOf(seq) == CHOOSE x \in Range(seq) : \A y \in Range(seq) : x >= y
MinOf(seq) == CHOOSE x \in Range(seq) : \A y \in Range(seq) : x <= y

OnlyAdvantage(roll) == roll.advantage /\ ~roll.disadvantage
OnlyDisadvantage(roll) == roll.disadvantage /\ ~roll.advantage

\* C6: every RollOutcome resolved from a Roll with die >= 1 has max(q, 2)
\* rolls when exactly one of advantage/disadvantage is set and q rolls
\* otherwise, and each of its rolls lies in 1..die.
C6_RollsLengthAndRange ==
    \A i \in 1..Len(drawn) :
        LET o == drawn[i]
            one == o.roll.advantage # o.roll.disadvantage
        IN o.roll.die >= 1 =>
              /\ Len(o.rolls) = IF one THEN Max2(o.roll.quantity, 2)
                                ELSE o.roll.quantity
              /\ \A j \in 1..Len(o.rolls) : o.rolls[j] \in 1..o.roll.die

\* A single die rolled with advantage has drawn two dice of different faces.
C6_Witness ==
    /\ drawn # <<>>
    /\ OnlyAdvantage(drawn[1].roll)
    /\ drawn[1].roll.quantity = 1
    /\ Len(drawn[1].rolls) = 2
    /\ drawn[1].rolls[1] # drawn[1].rolls[2]

\* C7 (as claimed): the result of a resolved Roll is the maximum of its rolls
\* with advantage only, the minimum with disadvantage only, the sum otherwise.
C7_ResultOfRoll ==
    \A i \in 1..Len(drawn) :
        LET o == drawn[i]
        IN o.result = IF OnlyAdvantage(o.roll) THEN MaxOf(o.rolls)
                      ELSE IF OnlyDisadvantage(o.roll) THEN MinOf(o.rolls)
                      ELSE Sum(o.rolls)

\* What coercion f returns when it reads a resolved value.
Reads(f, ret, v) ==
    /\ ret.status = "ok"
    /\ IF f = "rolls" THEN ret.list = v.rolls ELSE ret.num = v.result

\* C9: a coercion of Outcome applied to an unresolved Roll replaces the value
\* by Value::Outcome, appends that one RollOutcome to the log and draws once;
\* applied to a resolved value it changes nothing, draws nothing and reads
\* the result (or the rolls) of the RollOutcome resolved the first time.
C9_ResolvedOnce ==
    [][(last'.level = "Outcome" /\ last'.name \in Coercions) =>
         IF oc.value.tag = "Roll"
         THEN /\ oc'.value.tag = "Outcome"
              /\ oc'.value.roll = oc.value.roll
              /\ oc'.rolls = Append(oc.rolls, OutcomeIn(oc'.value))
              /\ drawn' = Append(drawn, OutcomeIn(oc'.value))
              /\ Reads(last'.name, got', oc'.value)
         ELSE /\ oc' = oc
              /\ drawn' = drawn
              /\ Reads(last'.name, got', oc.value)]_vars

\* A second coercion has been applied to an Outcome resolved by a first one.
C9_Witness ==
    /\ last.level = "Outcome"
    /\ last.name \in Coercions
    /\ ~last.fromRoll
    /\ oc.value.tag = "Outcome"
    /\ Len(oc.value.rolls) >= 2
    /\ drawn = <<OutcomeIn(oc.value)>>
    /\ oc.rolls = drawn

\* C10 (as claimed): Value::decimal and Value::natural applied to an
\* unresolved Roll return the result of the RollOutcome they resolve: the
\* maximum of the dice with advantage only, the minimum with disadvantage only.
C10_CoercionsReadResult ==
    (last.level = "Value" /\ last.fromRoll /\ got.status = "ok") =>
        LET o == drawn[Len(drawn)]
        IN /\ got.num = o.result
           /\ OnlyAdvantage(o.roll) => got.num = MaxOf(o.rolls)
           /\ OnlyDisadvantage(o.roll) => got.num = MinOf(o.rolls)

\* C29 (as claimed): resolving a Roll the tokenizer can produce, one of
\* quantity 0 or of die 0 included, returns a RollOutcome or an error value
\* and never panics.
C29_ResolveNeverCrashes ==
    /\ got.status # "panic"
    /\ ~Crashed

----------------------------------------------------------------------------
(* SpecKeep: keep is applied once to each list of rolls and each count.    *)

InitKeep ==
    /\ scopes = NewContext
    /\ stack = <<>>
    /\ err = FALSE
    /\ ev = NoEvent
    /\ RollIdle
    /\ kin \in KeepInputs
    /\ kn \in 0..(MaxLen + 1)
    /\ kout = NoKeep
    /\ ExprIdle
    /\ LexIdle
    /\ ParseIdle
    /\ ShowIdle
    /\ SyntaxIdle
    /\ DumpIdle

\* Outcome::keep, on a left operand that is Value::Rolls(kin) and a right
\* operand that is Value::Natural(kn)
Keep ==
    /\ kout = NoKeep
    /\ kout' = KeepValues(kin, kn)
    /\ UNCHANGED <<kin, kn, ctxVars, rollVars, exprVars, lexVars, parseVars, showVars, syntaxVars, dumpVars>>

NextKeep == Keep

SpecKeep == InitKeep /\ [][NextKeep]_vars

\* The position of the first smallest element of a non-empty list.
FirstSmallest(values) ==
    CHOOSE i \in 1..Len(values) :
        /\ \A j \in 1..Len(values) : values[i] <= values[j]
        /\ \A j \in 1..(i - 1) : values[j] > values[i]

\* Remove the smallest remaining element, earliest first on ties, k times.
RECURSIVE DropSmallest(_, _)
DropSmallest(values, k) ==
    IF k = 0 THEN values
    ELSE DropSmallest(RemoveAt(values, FirstSmallest(values)), k - 1)

\* C8 (as claimed): keep(values, n) with 0 <= n < len(values) returns the
\* list left after removing, len - n times, the smallest remaining element
\* (earliest position on ties), for every list and not only ascending ones.
C8_KeepDropsSmallest ==
    (kout.status = "ok" /\ 0 <= kn /\ kn < Len(kin)) =>
        kout.values = DropSmallest(kin, Len(kin) - kn)

\* C27 (as claimed): for every list of rolls and every count n >= 0, keep
\* returns without panicking, and its result has exactly min(n, len)
\* elements, each of them an element of the list it was given.
C27_KeepTotal ==
    kout # NoKeep =>
        /\ kout.status = "ok"
        /\ Len(kout.values) = (IF kn < Len(kin) THEN kn ELSE Len(kin))
        /\ Range(kout.values) \subseteq Range(kin)

----------------------------------------------------------------------------
(* SpecExpr: the combinators of Outcome.  evaluate() returns the Outcome   *)
(* of the left operand, then of the right operand, and hands both to the   *)
(* combinator; `operands` holds the Outcomes returned and not yet          *)
(* combined, `comb` the last combinator with the operands it was given     *)
(* and the RollOutcomes the random source produced while it coerced each.  *)

Arith == {"add", "sub", "mul", "div", "exp"}
Compare == {"greater_than", "greater_equal", "less_than", "less_equal"}
Logic == {"and", "or"}
Binaries == Arith \cup Compare \cup Logic \cup {"keep", "equal"}
Unaries == {"neg", "adv", "disadv", "not"}

\* Res<Outcome> of a combinator, with the dice drawn for each operand.
Combined(status, o, drewL, drewR) ==
    [status |-> status, outcome |-> o, drewL |-> drewL, drewR |-> drewR]
Failed(status, drewL, drewR) == Combined(status, NewOutcome(ValueEmpty), drewL, drewR)

Abs(x) == IF x < 0 THEN 0 - x ELSE x

RECURSIVE Pow(_, _)
Pow(x, n) == IF n = 0 THEN 1 ELSE x * Pow(x, n - 1)

\* The closures handed to arithmetic, on the whole numbers they map to
\* whole numbers.
Exact(f, lhs, rhs) ==
    /\ Abs(lhs) <= MaxNum
    /\ Abs(rhs) <= MaxNum
    /\ f = "div" => (rhs # 0 /\ Abs(lhs) % Abs(rhs) = 0)
    /\ f = "exp" => rhs >= 0

Apply(f, lhs, rhs) ==
    CASE f = "add" -> lhs + rhs
      [] f = "sub" -> lhs - rhs
      [] f = "mul" -> lhs * rhs
      [] f = "div" -> (IF (lhs < 0) = (rhs < 0) THEN 1 ELSE -1) * (Abs(lhs) \div Abs(rhs))
      [] f = "exp" -> Pow(lhs, rhs)

Holds(f, lhs, rhs) ==
    CASE f = "greater_than" -> lhs > rhs
      [] f = "greater_equal" -> lhs >= rhs
      [] f = "less_than" -> lhs < rhs
      [] f = "less_equal" -> lhs <= rhs
      [] f = "and" -> lhs = 1 /\ rhs = 1
      [] f = "or" -> lhs = 1 \/ rhs = 1

\* The body shared by Outcome::arithmetic, numeric_comparison and boolean:
\* coerce self, coerce other, append other's log to self's.
BothMut(a, b) ==
    [status |-> b.ret.status, drewL |-> a.ret.draws, drewR |-> b.ret.draws,
     lhs |-> a.ret.num, rhs |-> b.ret.num, rolls |-> b.self.rolls \o a.self.rolls]

Both(a, b) ==
    [status |-> b.ret.status, drewL |-> a.ret.draws, drewR |-> b.ret.draws,
     lhs |-> a.ret.num, rhs |-> b.ret.num, rolls |-> a.self.rolls \o b.self.rolls]

CoerceOther(a, other, coercion, rng) ==
    IF a.ret.status # "ok"
    THEN [status |-> a.ret.status, drewL |-> a.ret.draws,
          drewR |-> <<>>, lhs |-> 0, rhs |-> 0, rolls |-> <<>>]
    ELSE Both(a, ResolveFor(other, coercion, Skip(rng, a.ret.draws)))

CoerceBoth(this, other, coercion, rng) ==
    CoerceOther(ResolveFor(this, coercion, rng), other, coercion, rng)

\* Outcome::arithmetic
Applied(c, f) ==
    IF c.status # "ok" THEN Failed(c.status, c.drewL, c.drewR)
    ELSE Combined("ok", OutcomeOf(ValueDecimal(Apply(f, c.lhs, c.rhs)), c.rolls),
                  c.drewL, c.drewR)

Arithmetic(this, other, f, rng) == Applied(CoerceBoth(this, other, "decimal", rng), f)

\* Outcome::numeric_comparison
Decided(c, f) ==
    IF c.status # "ok" THEN Failed(c.status, c.drewL, c.drewR)
    ELSE Combined("ok", OutcomeOf(ValueBool(Holds(f, c.lhs, c.rhs)), c.rolls),
                  c.drewL, c.drewR)

NumericComparison(this, other, f, rng) ==
    Decided(CoerceBoth(this, other, "decimal", rng), f)

\* Outcome::boolean
Boolean(this, other, f, rng) == Decided(CoerceBoth(this, other, "bool", rng), f)

\* Outcome::add: two Strings are concatenated, a String and anything else is
\* an error of Value::string, everything else is arithmetic.
OutcomeAdd(this, other, rng) ==
    IF this.value.tag = "String" \/ other.value.tag = "String"
    THEN IF this.value.tag = "String" /\ other.value.tag = "String"
         THEN Combined("ok", OutcomeOf(ValueString(this.value.chars \o other.value.chars),
                                       this.rolls \o other.rolls), <<>>, <<>>)
         ELSE Failed("err", <<>>, <<>>)
    ELSE Arithmetic(this, other, "add", rng)

\* Outcome::keep.  `keep as usize` of a negative count is larger than any length.
Kept(a, b, kept) ==
    IF kept.status # "ok" THEN Failed(kept.status, a.ret.draws, b.ret.draws)
    ELSE Combined("ok", OutcomeOf(ValueRolls(kept.values), a.self.rolls \o b.self.rolls),
                  a.ret.draws, b.ret.draws)

KeepCount(a, b) ==
    IF b.ret.status # "ok" THEN Failed(b.ret.status, a.ret.draws, b.ret.draws)
    ELSE Kept(a, b, IF b.ret.num < 0 THEN KeepResult("ok", a.ret.list)
                    ELSE KeepValues(a.ret.list, b.ret.num))

KeepRolled(a, rhs, rng) ==
    IF a.ret.status # "ok" THEN Failed(a.ret.status, a.ret.draws, <<>>)
    ELSE KeepCount(a, ResolveFor(rhs, "natural", Skip(rng, a.ret.draws)))

OutcomeKeep(this, rhs, rng) == KeepRolled(ResolveFor(this, "rolls", rng), rhs, rng)

\* Outcome::equal
OutcomeEqual(this, other) ==
    Combined("ok", OutcomeOf(ValueBool(this.value = other.value),
                             this.rolls \o other.rolls), <<>>, <<>>)

\* Outcome::neg
Negated(a) ==
    IF a.ret.status # "ok" THEN Failed(a.ret.status, a.ret.draws, <<>>)
    ELSE Combined("ok", OutcomeOf(ValueDecimal(0 - a.ret.num), a.self.rolls),
                  a.ret.draws, <<>>)

OutcomeNeg(this, rng) == Negated(ResolveFor(this, "decimal", rng))

\* Outcome::adv
OutcomeAdv(this) ==
    IF this.value.tag # "Roll" THEN Failed("err", <<>>, <<>>)
    ELSE Combined("ok", OutcomeOf(ValueRoll([this.value.roll EXCEPT !.advantage = TRUE]),
                                  this.rolls), <<>>, <<>>)

\* Outcome::disadv
OutcomeDisadv(this) ==
    IF this.value.tag # "Roll" THEN Failed("err", <<>>, <<>>)
    ELSE Combined("ok", OutcomeOf(ValueRoll([this.value.roll EXCEPT !.disadvantage = TRUE]),
                                  this.rolls), <<>>, <<>>)

\* Outcome::not
OutcomeNot(this) ==
    LET b == ValueBoolOf(this.value)
    IN IF b.status # "ok" THEN Failed(b.status, <<>>, <<>>)
       ELSE Combined("ok", OutcomeOf(ValueBool(b.num = 0), this.rolls), <<>>, <<>>)

\* evaluate(): the combinator of a binary operator
Binary(name, this, other, rng) ==
    CASE name = "add" -> OutcomeAdd(this, other, rng)
      [] name \in Arith \ {"add"} -> Arithmetic(this, other, name, rng)
      [] name \in Compare -> NumericComparison(this, other, name, rng)
      [] name \in Logic -> Boolean(this, other, name, rng)
      [] name = "keep" -> OutcomeKeep(this, other, rng)
      [] name = "equal" -> OutcomeEqual(this, other)

\* evaluate(): the combinator of a unary operator
Unary(name, this, rng) ==
    CASE name = "neg" -> OutcomeNeg(this, rng)
      [] name = "adv" -> OutcomeAdv(this)
      [] name = "disadv" -> OutcomeDisadv(this)
      [] name = "not" -> OutcomeNot(this)

\* The numbers a combinator would be applied to.
Numbers(name, c) == (name \in Arith /\ c.status = "ok") => Exact(name, c.lhs, c.rhs)

NumbersOf(name, this, other, rng) ==
    Numbers(name, CoerceBoth(this, other, "decimal", rng))

\* The literals of an expression.  A list literal keeps the values of its
\* elements as they are, a roll among them unresolved (value.rs test_list).
D2 == ValueRoll(Roll(1, 2, FALSE, FALSE))
TwoD1 == ValueRoll(Roll(2, 1, FALSE, FALSE))
Literals ==
    {D2, TwoD1, ValueNatural(1), ValueBool(TRUE), ValueString(<<"a">>),
     ValueList(<<>>), ValueList(<<D2>>), ValueList(<<ValueNatural(1), D2>>)}

\* The random source of these two-sided dice, drawn at most two at a time.
ExprRngs == [1..2 -> 0..1]

\* The Outcomes of sub-expressions evaluated earlier, which carry a log:
\* 2d1k1, then 2d1k1 + d2, then 2d1k1 + d2 + d2d, with every draw of the dice.
Returned(results) == {r.outcome : r \in {x \in results : x.status = "ok"}}
KeptEarlier ==
    Returned({Binary("keep", NewOutcome(TwoD1), NewOutcome(ValueNatural(1)), rng) :
                rng \in ExprRngs})
SumEarlier ==
    Returned({Binary("add", o, NewOutcome(D2), rng) : o \in KeptEarlier, rng \in ExprRngs})
LongEarlier ==
    Returned({Binary("add", o, Unary("disadv", NewOutcome(D2), rng).outcome, rng) :
                o \in SumEarlier, rng \in ExprRngs})
Evaluated ==
    {NewOutcome(v) : v \in Literals} \cup KeptEarlier \cup SumEarlier \cup LongEarlier

InitExpr ==
    /\ scopes = NewContext
    /\ stack = <<>>
    /\ err = FALSE
    /\ ev = NoEvent
    /\ RollIdle
    /\ KeepIdle
    /\ ExprIdle
    /\ LexIdle
    /\ ParseIdle
    /\ ShowIdle
    /\ SyntaxIdle
    /\ DumpIdle

ExprFrame == UNCHANGED <<ctxVars, rollVars, keepVars, lexVars, parseVars, showVars, syntaxVars, dumpVars>>

Top == operands[Len(operands)]

\* The expression is evaluated once its binary combinator has returned, or
\* when a combinator has failed.
Evaluating == comb.status = "ok" /\ comb.kind # "binary"

\* evaluate() of an operand returns its Outcome
Operand(o) ==
    /\ Evaluating
    /\ Len(operands) < 2
    /\ operands' = Append(operands, o)
    /\ comb' = Comb("operand", "", "ok", NewOutcome(ValueEmpty), NewOutcome(ValueEmpty),
                    <<>>, <<>>)
    /\ ExprFrame

\* evaluate(): Node::Unary, the operand evaluated and the combinator applied
ApplyUnary(name, rng) ==
    /\ Evaluating
    /\ Len(operands) >= 1
    /\ \E r \in {Unary(name, Top, rng)} :
          /\ operands' = IF r.status = "ok"
                         THEN [operands EXCEPT ![Len(operands)] = r.outcome]
                         ELSE <<>>
          /\ comb' = Comb("unary", name, r.status, Top, NewOutcome(ValueEmpty),
                          r.drewL, r.drewR)
    /\ ExprFrame

\* evaluate(): Node::Binary, evaluate(lhs)?.op(evaluate(rhs)?)
ApplyBinary(name, rng) ==
    /\ Evaluating
    /\ Len(operands) = 2
    /\ NumbersOf(name, operands[1], operands[2], rng)
    /\ \E r \in {Binary(name, operands[1], operands[2], rng)} :
          /\ operands' = IF r.status = "ok" THEN <<r.outcome>> ELSE <<>>
          /\ comb' = Comb("binary", name, r.status, operands[1], operands[2],
                          r.drewL, r.drewR)
    /\ ExprFrame

NextExpr ==
    \/ \E o \in Evaluated : Operand(o)
    \/ \E name \in Unaries, rng \in ExprRngs : ApplyUnary(name, rng)
    \/ \E name \in Binaries, rng \in ExprRngs : ApplyBinary(name, rng)

SpecExpr == InitExpr /\ [][NextExpr]_vars

----------------------------------------------------------------------------
(* Properties of the roll log.                                             *)

Coercing == Arith \cup Compare

\* C11 (as claimed): after an arithmetic or comparison operator has coerced
\* its operands, the log of the result holds the logs of the operands and
\* one RollOutcome for every resolution of dice the coercions performed,
\* whether the operand was a bare Roll or a List with unresolved Rolls in it.
C11_EveryResolutionLogged ==
    (comb.kind = "binary" /\ comb.name \in Coercing /\ comb.status = "ok") =>
        /\ Len(Top.rolls) = Len(comb.lhs.rolls) + Len(comb.drewL)
                                + Len(comb.rhs.rolls) + Len(comb.drewR)
        /\ \A d \in Range(comb.drewL \o comb.drewR) : d \in Range(Top.rolls)

\* The resolution a combinator forces on an operand that is a bare Roll.
Forced(o, drew) == IF o.value.tag = "Roll" /\ drew # <<>> THEN <<drew[1]>> ELSE <<>>

BinaryLogInOrder ==
    (comb.kind = "binary" /\ comb.status = "ok") =>
        Top.rolls = comb.lhs.rolls \o Forced(comb.lhs, comb.drewL)
                        \o comb.rhs.rolls \o Forced(comb.rhs, comb.drewR)

\* C12 (as claimed): a binary combinator returns the left operand's log, with
\* the resolution forced on the left operand, followed by the right
\* operand's log, with the resolution forced on the right operand; a unary
\* combinator returns the log of its operand unchanged.
C12_UnaryLogUnchanged ==
    /\ BinaryLogInOrder
    /\ (comb.kind = "unary" /\ comb.status = "ok") => Top.rolls = comb.lhs.rolls

\* C12 (amended): as above for the binary combinators; adv, disadv and not
\* return the log of their operand unchanged, and neg returns it followed by
\* the resolution neg forces on an operand that is a bare Roll.
C12_LogsInSourceOrder ==
    /\ BinaryLogInOrder
    /\ (comb.kind = "unary" /\ comb.status = "ok") =>
            /\ Top.rolls = comb.lhs.rolls \o Forced(comb.lhs, comb.drewL)
            /\ comb.name # "neg" => Top.rolls = comb.lhs.rolls

\* 2d1k1 + d2 + d2d + 2d1a: the four rolls are logged in source order.
C12_Witness ==
    /\ comb.kind = "binary" /\ comb.name = "add" /\ comb.status = "ok"
    /\ [i \in 1..Len(Top.rolls) |-> Top.rolls[i].roll]
         = <<Roll(2, 1, FALSE, FALSE), Roll(1, 2, FALSE, FALSE),
             Roll(1, 2, FALSE, TRUE), Roll(2, 1, TRUE, FALSE)>>

----------------------------------------------------------------------------
(* The tokeniser.  A text is a sequence of characters, each a string of    *)
(* length one.                                                              *)

Quote == "\""
Backslash == "\\"
Newline == "\n"
Tab == "\t"
\* An alphabetic character outside ASCII, two bytes long in UTF-8
EAcute == "é"

Digits == {"0", "1", "2", "3", "4", "5", "6", "7", "8", "9"}
Alphabetic ==
    {"a", "b", "c", "d", "e", "f", "g", "h", "i", "j", "k", "l", "m",
     "n", "o", "p", "q", "r", "s", "t", "u", "v", "w", "x", "y", "z",
     "A", "B", "C", "D", "E", "F", "G", "H", "I", "J", "K", "L", "M",
     "N", "O", "P", "Q", "R", "S", "T", "U", "V", "W", "X", "Y", "Z",
     EAcute}

\* char::is_numeric and char::is_alphabetic, on the characters of the model
IsNumeric(c) == c \in Digits
IsAlphabetic(c) == c \in Alphabetic

DigitValue(c) ==
    CASE c = "0" -> 0 [] c = "1" -> 1 [] c = "2" -> 2 [] c = "3" -> 3 [] c = "4" -> 4
      [] c = "5" -> 5 [] c = "6" -> 6 [] c = "7" -> 7 [] c = "8" -> 8 [] c = "9" -> 9

\* Operator::chars of the operators the tokeniser reads
OperatorChars(o) ==
    CASE o = "Define" -> <<":", "=">>
      [] o = "Equal" -> <<"=", "=">>
      [] o = "GreaterEqual" -> <<">", "=">>
      [] o = "LessEqual" -> <<"<", "=">>
      [] o = "GreaterThan" -> <<">">>
      [] o = "LessThan" -> <<"<">>
      [] o = "Assign" -> <<"=">>
      [] o = "Discard" -> <<";">>
      [] o = "Add" -> <<"+">>
      [] o = "Sub" -> <<"-">>
      [] o = "Mul" -> <<"*">>
      [] o = "Div" -> <<"/">>
      [] o = "Exp" -> <<"^">>
      [] o = "And" -> <<"&">>
      [] o = "Or" -> <<"|">>
      [] o = "Not" -> <<"!">>
      [] o = "Neg" -> <<"-">>
      [] o = "Keep" -> <<"k">>
      [] o = "Adv" -> <<"a">>
      [] o = "DisAdv" -> <<"d">>
      [] o = "Sentinel" -> <<"@">>

\* Operator::TOKENS, in the order of the array
TOKENSMut ==
    <<"Define", "Assign", "Equal", "GreaterThan", "GreaterEqual", "LessThan", "LessEqual",
      "Discard", "Add", "Sub", "Mul", "Div", "Exp", "And", "Or", "Not">>

TOKENS ==
    <<"Define", "Equal", "GreaterEqual", "LessEqual", "GreaterThan", "LessThan", "Assign",
      "Discard", "Add", "Sub", "Mul", "Div", "Exp", "And", "Or", "Not">>

\* Operator::ROLL_SUFFIX_TOKENS
ROLL_SUFFIX_TOKENS == <<"Keep", "Adv", "DisAdv">>

\* Tok
TokIdentifier(name) == [tok |-> "Identifier", name |-> name]
TokNatural(n) == [tok |-> "Natural", n |-> n]
\* The f64 of a decimal literal: its whole part and the digits of its
\* fraction, without the zeros that end it.
TokDecimal(whole, frac) == [tok |-> "Decimal", whole |-> whole, frac |-> frac]
TokRoll(q, d) == [tok |-> "Roll", q |-> q, d |-> d]
TokOperator(o) == [tok |-> "Operator", o |-> o]
TokString(s) == [tok |-> "String", s |-> s]
TokParenOpen == [tok |-> "ParenOpen"]
TokParenClose == [tok |-> "ParenClose"]
TokBracketOpen == [tok |-> "BracketOpen"]
TokBracketClose == [tok |-> "BracketClose"]
TokComma == [tok |-> "Comma"]

\* Token::new
Token(tok, line, col, index, len) ==
    [tok |-> tok, line |-> line, col |-> col, index |-> index, len |-> len]

\* Res<(usize, Tok)>; a failed debug_assert! is a panic.
Read(len, tok) == [status |-> "ok", len |-> len, tok |-> tok]
ReadErr == [status |-> "err", len |-> 0, tok |-> TokComma]
ReadPanic == [status |-> "panic", len |-> 0, tok |-> TokComma]

\* input[n..]
From(input, n) == SubSeq(input, n + 1, Len(input))

\* <[char]>::starts_with
StartsWith(input, chars) ==
    /\ Len(chars) <= Len(input)
    /\ SubSeq(input, 1, Len(chars)) = chars

\* read_string: `i` characters read, `s` and `escaped` as in the loop.  Only
\* the arms that push an escaped character clear `escaped`.
RECURSIVE ReadStringLoop(_, _, _, _)
ReadStringLoop(input, i, s, escaped) ==
    IF i >= Len(input) THEN ReadErr
    ELSE CASE input[i + 1] = Backslash ->
                IF escaped THEN ReadStringLoop(input, i + 1, Append(s, Backslash), FALSE)
                ELSE ReadStringLoop(input, i + 1, s, TRUE)
           [] input[i + 1] = Quote ->
                IF escaped THEN ReadStringLoop(input, i + 1, Append(s, Quote), FALSE)
                ELSE Read(i + 1, TokString(s))
           [] input[i + 1] = "n" /\ escaped ->
                ReadStringLoop(input, i + 1, Append(s, Newline), FALSE)
           [] input[i + 1] = "t" /\ escaped ->
                ReadStringLoop(input, i + 1, Append(s, Tab), FALSE)
           [] input[i + 1] = Newline -> ReadErr
           [] OTHER -> ReadStringLoop(input, i + 1, Append(s, input[i + 1]), escaped)

ReadString(input) == ReadStringLoop(input, 1, <<>>, FALSE)

\* str::parse::<u64> of a string of digits
RECURSIVE ParseDigits(_, _)
ParseDigits(s, n) ==
    IF s = <<>> THEN n ELSE ParseDigits(Tail(s), 10 * n + DigitValue(Head(s)))

\* The position of the first `c` in `s`, 0 when there is none
RECURSIVE Find(_, _, _)
Find(s, c, i) ==
    IF i > Len(s) THEN 0 ELSE IF s[i] = c THEN i ELSE Find(s, c, i + 1)

RECURSIVE TrimZeros(_)
TrimZeros(s) ==
    IF s # <<>> /\ s[Len(s)] = "0" THEN TrimZeros(SubSeq(s, 1, Len(s) - 1)) ELSE s

\* The scan of read_number: the literal `s` and what it was found to be.
Scan(status, s, isDecimal, isRoll) ==
    [status |-> status, s |-> s, isDecimal |-> isDecimal, isRoll |-> isRoll]

RECURSIVE ReadNumberLoop(_, _, _, _, _)
ReadNumberLoop(input, i, s, isDecimal, isRoll) ==
    IF i >= Len(input) THEN Scan("ok", s, isDecimal, isRoll)
    ELSE CASE input[i + 1] = "." ->
                IF isDecimal \/ isRoll THEN Scan("err", Append(s, "."), isDecimal, isRoll)
                ELSE ReadNumberLoop(input, i + 1, Append(s, "."), TRUE, isRoll)
           [] input[i + 1] = "d" ->
                IF isRoll THEN Scan("ok", s, isDecimal, isRoll)
                ELSE IF isDecimal THEN Scan("err", s, isDecimal, isRoll)
                ELSE ReadNumberLoop(input, i + 1, Append(s, "d"), isDecimal, TRUE)
           [] IsNumeric(input[i + 1]) ->
                ReadNumberLoop(input, i + 1, Append(s, input[i + 1]), isDecimal, isRoll)
           [] OTHER -> Scan("ok", s, isDecimal, isRoll)

\* s.parse::<f64>() of digits around one '.': an error without any digit
DecimalOf(s, dot) ==
    IF Len(s) = 1 THEN ReadErr
    ELSE Read(Len(s), TokDecimal(ParseDigits(SubSeq(s, 1, dot - 1), 0),
                                 TrimZeros(SubSeq(s, dot + 1, Len(s)))))

\* s.split_once('d'), an empty quantity is 1, an empty die is a parse error
RollOf(s, d) ==
    IF d = Len(s) THEN ReadErr
    ELSE Read(Len(s), TokRoll(IF d = 1 THEN 1 ELSE ParseDigits(SubSeq(s, 1, d - 1), 0),
                              ParseDigits(SubSeq(s, d + 1, Len(s)), 0)))

NumberOf(scan) ==
    IF scan.status # "ok" THEN ReadErr
    ELSE IF scan.isDecimal THEN DecimalOf(scan.s, Find(scan.s, ".", 1))
    ELSE IF scan.isRoll THEN RollOf(scan.s, Find(scan.s, "d", 1))
    ELSE Read(Len(scan.s), TokNatural(ParseDigits(scan.s, 0)))

\* read_number.  Its debug_assert! fails on a literal that starts with '.'.
ReadNumber(input, profile) ==
    IF profile = "debug" /\ ~(IsNumeric(input[1]) \/ input[1] = "d") THEN ReadPanic
    ELSE NumberOf(ReadNumberLoop(input, 0, <<>>, FALSE, FALSE))

\* char::len_utf8, on the characters of the model
LenUtf8(c) == IF c = EAcute THEN 2 ELSE 1

\* String::len, the length in bytes
StringLen(s) == Sum([i \in 1..Len(s) |-> LenUtf8(s[i])])

\* read_identifier, which returns s.len() as the number of chars read
RECURSIVE ReadIdentifierLoop(_, _)
ReadIdentifierLoop(input, s) ==
    IF Len(s) < Len(input)
         /\ \/ input[Len(s) + 1] = "_"
            \/ IsAlphabetic(input[Len(s) + 1])
            \/ (s # <<>> /\ IsNumeric(input[Len(s) + 1]))
    THEN ReadIdentifierLoop(input, Append(s, input[Len(s) + 1]))
    ELSE Read(StringLen(s), TokIdentifier(s))

ReadIdentifier(input) == ReadIdentifierLoop(input, <<>>)

\* Result::or_else
OrElse(first, second) == IF first.status = "err" THEN second ELSE first

\* read_token: the first operator of `tokens` that the input starts with
RECURSIVE FirstOperator(_, _, _)
FirstOperator(input, tokens, i) ==
    IF i > Len(tokens) THEN "none"
    ELSE IF StartsWith(input, OperatorChars(tokens[i])) THEN tokens[i]
    ELSE FirstOperator(input, tokens, i + 1)

ReadOther(input, profile) ==
    CASE input = <<>> -> ReadErr
      [] input # <<>> /\ input[1] = "," -> Read(1, TokComma)
      [] input # <<>> /\ input[1] = "(" -> Read(1, TokParenOpen)
      [] input # <<>> /\ input[1] = ")" -> Read(1, TokParenClose)
      [] input # <<>> /\ input[1] = "[" -> Read(1, TokBracketOpen)
      [] input # <<>> /\ input[1] = "]" -> Read(1, TokBracketClose)
      [] input # <<>> /\ input[1] = Quote -> ReadString(input)
      [] input # <<>> /\ input[1] = "." -> ReadNumber(input, profile)
      [] input # <<>> /\ IsNumeric(input[1]) -> ReadNumber(input, profile)
      [] input # <<>> /\ input[1] = "_" -> ReadIdentifier(input)
      [] input # <<>> /\ input[1] = "d" ->
            OrElse(ReadNumber(input, profile), ReadIdentifier(input))
      [] input # <<>> /\ IsAlphabetic(input[1]) /\ input[1] # "d" -> ReadIdentifier(input)
      [] OTHER -> ReadErr

ReadOperator(input, profile, o) ==
    IF o # "none" THEN Read(Len(OperatorChars(o)), TokOperator(o))
    ELSE ReadOther(input, profile)

ReadToken(input, profile) == ReadOperator(input, profile, FirstOperator(input, TOKENS, 1))

\* read_comment
RECURSIVE ReadComment(_, _)
ReadComment(input, len) ==
    IF len >= Len(input) THEN len
    ELSE IF input[len + 1] = Newline THEN len + 1
    ELSE ReadComment(input, len + 1)

\* maybe_read_postfix_roll_op
IsOperator(input) ==
    IF Len(input) >= 2 /\ ~IsAlphabetic(input[2]) /\ input[2] # "_" THEN TRUE
    ELSE Len(input) = 1

MaybeReadPostfixRollOp(input, profile) ==
    IF IsOperator(input) /\ FirstOperator(<<input[1]>>, ROLL_SUFFIX_TOKENS, 1) # "none"
    THEN Read(1, TokOperator(FirstOperator(<<input[1]>>, ROLL_SUFFIX_TOKENS, 1)))
    ELSE ReadToken(input, profile)

\* Result<TokenList, String>
Tokens(status, tokens) == [status |-> status, tokens |-> tokens]

AfterRoll(tokens) == tokens # <<>> /\ tokens[Len(tokens)].tok.tok = "Roll"

\* tokenise: the loop over what is left of the input.  &input[len..] panics
\* when len is more than what is left.
RECURSIVE TokeniseLoop(_, _, _, _, _, _, _)
Pushed(input, tokens, index, line, col, profile, read) ==
    IF read.status # "ok" THEN Tokens(read.status, <<>>)
    ELSE IF read.len > Len(input) THEN Tokens("out_of_range", <<>>)
    ELSE TokeniseLoop(From(input, read.len),
                      Append(tokens, Token(read.tok, line, col, index, read.len)),
                      index + read.len, line, col + read.len, FALSE, profile)

Commented(input, tokens, index, line, profile, len) ==
    TokeniseLoop(From(input, len), tokens, index + len, line + 1, 1, TRUE, profile)

TokeniseLoop(input, tokens, index, line, col, whitespace_since_token, profile) ==
    IF input = <<>> THEN Tokens("ok", tokens)
    ELSE CASE input[1] \in {" ", Tab} ->
                TokeniseLoop(Tail(input), tokens, index + 1, line, col + 1, TRUE, profile)
           [] input[1] = Newline ->
                TokeniseLoop(Tail(input), tokens, index + 1, line + 1, 1, TRUE, profile)
           [] input[1] = "#" ->
                Commented(input, tokens, index, line, profile, ReadComment(input, 0))
           [] input[1] \in {"a", "d", "k"} /\ ~whitespace_since_token /\ AfterRoll(tokens) ->
                Pushed(input, tokens, index, line, col, profile,
                       MaybeReadPostfixRollOp(input, profile))
           [] OTHER ->
                Pushed(input, tokens, index, line, col, profile, ReadToken(input, profile))

Tokenise(input, profile) == TokeniseLoop(input, <<>>, 0, 1, 1, FALSE, profile)

\* The Toks of a TokenList
Toks(tokens) == [i \in 1..Len(tokens) |-> tokens[i].tok]

\* The texts handed to tokenise: every text of at most MaxText characters
\* of LexChars, and the literals of the tests and of the operators.
LexChars == {"d", "a", "k", "s", "1", ".", Quote, Backslash, "=", ">", " "}

Chars(k) == [1..k -> LexChars]

LexExamples ==
    {OperatorChars(TOKENS[i]) : i \in 1..Len(TOKENS)} \cup
    {<<"d", "2", "0", "d", " ", "d", "w", "o", "r", "d", " ", "d", " ",
       "a", "w", "o", "r", "d", " ", "a", " ", "d", "2", "0", "a">>,
     <<"1", ".", "5", "d", "6">>, <<"2", "d", "6", ".", "5">>, <<"d", "6", ".", "5">>,
     <<"d", "2", "0", "s">>, <<"d", "2", "0", "k", "1">>,
     <<Quote, Backslash, Quote, Quote>>,
     <<Quote, Backslash, Backslash, Quote, " ", Quote, Backslash, Quote, Quote>>,
     <<Quote, Backslash, "a", Quote>>, <<Quote, Backslash, "n", Quote>>,
     <<Quote, "a", Backslash, "t", "b", Quote>>, <<Quote, "a", Newline, Quote>>,
     <<"1", " ", "#", "a", Newline, "_", "a", "1">>,
     <<"i", "f", " ", "2", Newline, Tab, "x", "(", Quote, "a", Quote, ")", Newline, "y">>,
     <<EAcute>>, <<EAcute, "t", EAcute>>, <<EAcute, "=", "1">>, <<"a", EAcute, " ", "1">>,
     <<EAcute, " ", "+", " ", "1">>}

Texts == UNION {Chars(k) : k \in 0..MaxText} \cup LexExamples

Profiles == {"release", "debug"}

InitLex ==
    /\ scopes = NewContext
    /\ stack = <<>>
    /\ err = FALSE
    /\ ev = NoEvent
    /\ RollIdle
    /\ KeepIdle
    /\ ExprIdle
    /\ ParseIdle
    /\ ShowIdle
    /\ build \in Profiles
    /\ text \in Texts
    /\ lexed = NotCalled
    /\ SyntaxIdle
    /\ DumpIdle

LexFrame == UNCHANGED <<ctxVars, rollVars, keepVars, exprVars, parseVars, showVars, syntaxVars, dumpVars>>

\* tokenise(text)
TokeniseText ==
    /\ lexed = NotCalled
    /\ lexed' = Tokenise(text, build)
    /\ UNCHANGED <<build, text>>
    /\ LexFrame

NextLex == TokeniseText

SpecLex == InitLex /\ [][NextLex]_vars

----------------------------------------------------------------------------
(* Properties of the tokeniser.                                            *)

Lexed == lexed.status = "ok"

\* The postfix roll operator a letter stands for
PostfixOf(c) ==
    CASE c = "a" -> "Adv" [] c = "d" -> "DisAdv" [] c = "k" -> "Keep" [] c = "s" -> "Sort"

\* The letter at position p comes right after a Roll token, and what comes
\* after the letter is neither alphabetic nor an underscore.
FollowsRoll(p) ==
    \E i \in 1..Len(lexed.tokens) :
        /\ lexed.tokens[i].tok.tok = "Roll"
        /\ lexed.tokens[i].index + lexed.tokens[i].len = p - 1

Clear(p) == p = Len(text) \/ ~(IsAlphabetic(text[p + 1]) \/ text[p + 1] = "_")

TokensAt(p) == {i \in 1..Len(lexed.tokens) : lexed.tokens[i].index = p - 1}

\* C17 (as claimed): each of the letters a, d, k, s is lexed as its postfix
\* roll operator exactly when it comes right after a Roll token and is not
\* followed by an alphabetic character or an underscore.
C17_PostfixLetters ==
    Lexed =>
        \A p \in 1..Len(text) :
            text[p] \in {"a", "d", "k", "s"} =>
                IF FollowsRoll(p) /\ Clear(p)
                THEN \E i \in TokensAt(p) :
                        lexed.tokens[i].tok = TokOperator(PostfixOf(text[p]))
                ELSE \A i \in TokensAt(p) : lexed.tokens[i].tok.tok # "Operator"

Count(s, c) == Cardinality({i \in 1..Len(s) : s[i] = c})

\* A numeric literal with both a '.' and a 'd' in it, as 1.5d6, 2d6.5, d6.5
DotAndD(s) ==
    /\ s # <<>>
    /\ \A i \in 1..Len(s) : s[i] \in Digits \cup {".", "d"}
    /\ Count(s, ".") = 1
    /\ Count(s, "d") = 1
    /\ s[1] # "."
    /\ s[Len(s)] \in Digits
    /\ Abs(Find(s, ".", 1) - Find(s, "d", 1)) > 1

\* C18 (as claimed): tokenise returns an error for a numeric literal with
\* both a '.' and a 'd' in it.
C18_DotAndDIsError ==
    (lexed # NotCalled /\ DotAndD(text)) => lexed.status = "err"

\* The position of the first quote from position i on that does not come
\* right after an escaping backslash, 0 when there is none.
RECURSIVE ClosingQuote(_, _)
ClosingQuote(s, i) ==
    IF i > Len(s) THEN 0
    ELSE IF s[i] = Backslash THEN ClosingQuote(s, i + 2)
    ELSE IF s[i] = Quote THEN i
    ELSE ClosingQuote(s, i + 1)

Escapes == {Backslash, Quote, "n", "t"}

Unescape(c) ==
    CASE c = Backslash -> Backslash [] c = Quote -> Quote
      [] c = "n" -> Newline [] c = "t" -> Tab

\* The characters a literal stands for, when each backslash is followed by
\* one of the four characters it escapes.
RECURSIVE Decoded(_, _, _)
Decoded(s, i, out) ==
    IF i > Len(s) THEN out
    ELSE IF s[i] = Backslash /\ i < Len(s) /\ s[i + 1] \in Escapes
         THEN Decoded(s, i + 2, Append(out, Unescape(s[i + 1])))
    ELSE Decoded(s, i + 1, Append(out, s[i]))

KnownEscapes(s) ==
    \A i \in 1..Len(s) :
        (s[i] = Backslash /\ Count(SubSeq(s, 1, i - 1), Backslash) % 2 = 0)
            => (i < Len(s) /\ s[i + 1] \in Escapes)

\* C19 (as claimed): a text that opens with a quote and has no raw newline
\* is one String token that ends at the first quote that does not come
\* right after an escaping backslash, when the text ends there, and an
\* error when there is no such quote.
C19_BackslashEscapesOneCharacter ==
    (lexed # NotCalled /\ text # <<>> /\ text[1] = Quote
        /\ \A i \in 1..Len(text) : text[i] # Newline) =>
        /\ ClosingQuote(text, 2) = 0 => lexed.status = "err"
        /\ ClosingQuote(text, 2) = Len(text) =>
              /\ Lexed
              /\ Len(lexed.tokens) = 1
              /\ lexed.tokens[1].tok.tok = "String"
              /\ lexed.tokens[1].len = Len(text)
              /\ KnownEscapes(SubSeq(text, 2, Len(text) - 1)) =>
                    lexed.tokens[1].tok.s = Decoded(SubSeq(text, 2, Len(text) - 1), 1, <<>>)

\* C20: in TOKENS an operator whose literal starts with the literal of
\* another comes before it, and the literal of every operator of TOKENS is
\* tokenised as that one operator.
C20_LongestFirst ==
    /\ \A i, j \in 1..Len(TOKENS) :
          (i # j /\ StartsWith(OperatorChars(TOKENS[j]), OperatorChars(TOKENS[i]))) => j < i
    /\ \A i \in 1..Len(TOKENS) :
          (lexed # NotCalled /\ text = OperatorChars(TOKENS[i])) =>
              /\ Lexed
              /\ Toks(lexed.tokens) = <<TokOperator(TOKENS[i])>>

\* ">=" is read as GreaterEqual, not as GreaterThan and Assign.
C20_Witness ==
    /\ text = <<">", "=">>
    /\ Lexed
    /\ Toks(lexed.tokens) = <<TokOperator("GreaterEqual")>>

\* The positions (1-based) of the characters a token's index and len span
Span(t) == (t.index + 1)..(t.index + t.len)

Spanned == UNION {Span(lexed.tokens[i]) : i \in 1..Len(lexed.tokens)}

\* Position p is part of a comment: a '#' outside every span starts at or
\* before p, with no end of line in between.
InComment(p) ==
    \E q \in 1..p :
        /\ text[q] = "#"
        /\ q \notin Spanned
        /\ \A r \in q..(p - 1) : text[r] # Newline

\* The 1-based line and column of position p of the text
LineOf(p) == 1 + Cardinality({q \in 1..(p - 1) : text[q] = Newline})
ColOf(p) == Cardinality({q \in 1..p : \A r \in q..(p - 1) : text[r] # Newline})

\* C26 (as claimed): tokenise never slices past the end of its input, and
\* when it succeeds each token's index and len span characters of the text,
\* the spans come in increasing order without overlap, every character
\* outside the spans is whitespace or part of a comment, and line and col
\* are the 1-based line and column of the token's first character.
C26_TokenSpans ==
    /\ lexed.status # "out_of_range"
    /\ Lexed =>
          /\ \A i \in 1..Len(lexed.tokens) :
                LET t == lexed.tokens[i]
                IN /\ t.len >= 1
                   /\ Span(t) \subseteq 1..Len(text)
                   /\ i > 1 => lexed.tokens[i - 1].index + lexed.tokens[i - 1].len <= t.index
                   /\ t.line = LineOf(t.index + 1)
                   /\ t.col = ColOf(t.index + 1)
          /\ \A p \in (1..Len(text)) \ Spanned :
                text[p] \in {" ", Tab, Newline} \/ InComment(p)

----------------------------------------------------------------------------
(* The operators and the AST.                                               *)

\* Operator::precedence
Precedence(o) ==
    CASE o = "Sentinel" -> 0
      [] o = "Define" -> 1
      [] o = "Discard" -> 2
      [] o = "Assign" -> 3
      [] o \in {"And", "Or"} -> 4
      [] o \in {"GreaterThan", "LessThan", "GreaterEqual", "LessEqual", "Equal"} -> 5
      [] o \in {"Add", "Sub"} -> 6
      [] o \in {"Mul", "Div"} -> 7
      [] o \in {"Not", "Neg", "Adv", "DisAdv"} -> 8
      [] o = "Exp" -> 9
      [] o = "Keep" -> 10

\* Operator::left_associative
LeftAssociative(o) ==
    o \notin {"Sentinel", "Assign", "Define", "Not", "Exp", "Neg", "Adv", "DisAdv"}

\* Operator::is_binary
IsBinary(o) == o \notin {"Sentinel", "Not", "Neg", "Adv", "DisAdv"}

\* Operator::is_unary
IsUnary(o) == o \in {"Not", "Neg", "Adv", "DisAdv"}

\* Operator::is_unary_prefix
IsUnaryPrefix(o) == o \in {"Not", "Neg"}

\* Operator::is_unary_postfix
IsUnaryPostfix(o) == o \in {"Adv", "DisAdv"}

\* Operator::greater
GreaterMut(left, right) ==
    IF IsBinary(left) /\ IsBinary(right)
    THEN Precedence(left) > Precedence(right)
    ELSE IF (IsUnary(left) /\ IsBinary(right)) \/ IsUnaryPostfix(right)
    THEN Precedence(left) >= Precedence(right)
    ELSE FALSE

Greater(left, right) ==
    IF IsBinary(left) /\ IsBinary(right)
    THEN \/ Precedence(left) > Precedence(right)
         \/ (LeftAssociative(left) /\ Precedence(left) = Precedence(right))
    ELSE IF (IsUnary(left) /\ IsBinary(right)) \/ IsUnaryPostfix(right)
    THEN Precedence(left) >= Precedence(right)
    ELSE FALSE

\* Node.  The children of a node are indices of the arena, from 0; the
\* optional else branch of an If is a sequence of at most one index.
NodeValue(v) == [node |-> "Value", value |-> v]
NodeIdentifier(name) == [node |-> "Identifier", name |-> name]
NodeList(values) == [node |-> "List", values |-> values]
NodeCall(name, args) == [node |-> "Call", name |-> name, args |-> args]
NodeBinary(lhs, o, rhs) == [node |-> "Binary", lhs |-> lhs, o |-> o, rhs |-> rhs]
NodeUnary(arg, o) == [node |-> "Unary", arg |-> arg, o |-> o]
NodeIf(cond, expr, fail) == [node |-> "If", cond |-> cond, expr |-> expr, fail |-> fail]

\* Ast::start
Start(ast) == IF ast = <<>> THEN 0 ELSE Len(ast) - 1

\* Ast::get of an index that is in the arena
Get(ast, id) == ast[id + 1]

\* The indices a node holds, in the order of its fields
Children(n) ==
    CASE n.node = "List" -> n.values
      [] n.node = "Call" -> n.args
      [] n.node = "Binary" -> <<n.lhs, n.rhs>>
      [] n.node = "Unary" -> <<n.arg>>
      [] n.node = "If" -> <<n.cond, n.expr>> \o n.fail
      [] OTHER -> <<>>

----------------------------------------------------------------------------
(* The parser.  The state of a Parser, with the Res of the call that last  *)
(* returned: its status and, when it is Ok(id), the id.                    *)

NewParser(toks) ==
    [input |-> toks, operators |-> <<>>, operands |-> <<>>,
     operators_scopes |-> <<>>, operands_scopes |-> <<>>,
     ast |-> <<>>, status |-> "ok", id |-> 0]

Fail(p) == [p EXCEPT !.status = "err"]
Returning(p, id) == [p EXCEPT !.id = id]

Last(s) == s[Len(s)]
Front(s) == SubSeq(s, 1, Len(s) - 1)

\* Parser::push_scope
PushParserScope(p) ==
    [p EXCEPT !.operators_scopes = Append(@, p.operators),
              !.operands_scopes = Append(@, p.operands),
              !.operators = <<>>,
              !.operands = <<>>]

PopParserScopeMut(p) ==
    [p EXCEPT !.operators_scopes = IF @ = <<>> THEN @ ELSE Front(@),
              !.operands_scopes = IF @ = <<>> THEN @ ELSE Front(@)]

\* Parser::pop_scope
PopParserScope(p) ==
    [p EXCEPT !.operators = IF p.operators_scopes = <<>> THEN @
                            ELSE Last(p.operators_scopes),
              !.operators_scopes = IF @ = <<>> THEN @ ELSE Front(@),
              !.operands = IF p.operands_scopes = <<>> THEN @
                           ELSE Last(p.operands_scopes),
              !.operands_scopes = IF @ = <<>> THEN @ ELSE Front(@)]

\* Parser::next
NextToken(p) == IF p.input = <<>> THEN Fail(p) ELSE [p EXCEPT !.input = Tail(@)]

\* Parser::next_is
NextIs(p, tok) == p.input # <<>> /\ Head(p.input) = tok

\* Parser::expect
Expect(p, tok) ==
    IF p.status # "ok" THEN p
    ELSE IF NextIs(p, tok) THEN NextToken(p)
    ELSE Fail(NextToken(p))

\* Parser::push_operand
PushOperand(p, n) ==
    [p EXCEPT !.ast = Append(@, n),
              !.operands = Append(@, Len(p.ast)),
              !.id = Len(p.ast)]

\* Parser::pop_operator.  What it has popped stays popped when it fails.
PopBinary(p, o) ==
    IF Len(p.operands) < 2 THEN Fail([p EXCEPT !.operands = <<>>])
    ELSE PushOperand([p EXCEPT !.operands = SubSeq(@, 1, Len(@) - 2)],
                     NodeBinary(p.operands[Len(p.operands) - 1], o, Last(p.operands)))

PopUnary(p, o) ==
    IF p.operands = <<>> THEN Fail(p)
    ELSE PushOperand([p EXCEPT !.operands = Front(@)], NodeUnary(Last(p.operands), o))

PopOperator(p) ==
    IF p.operators = <<>> THEN Fail(p)
    ELSE IF IsBinary(Last(p.operators))
         THEN PopBinary([p EXCEPT !.operators = Front(@)], Last(p.operators))
    ELSE IF IsUnary(Last(p.operators))
         THEN PopUnary([p EXCEPT !.operators = Front(@)], Last(p.operators))
    ELSE Fail([p EXCEPT !.operators = Front(@)])

\* Result::ok: the error of pop_operator is dropped
Dropped(p) == [p EXCEPT !.status = "ok"]

\* Parser::push_operator
RECURSIVE PushOperator(_, _)
PushOperator(p, o) ==
    IF p.operators # <<>> /\ Greater(Last(p.operators), o)
    THEN PushOperator(Returning(Dropped(PopOperator(p)), p.id), o)
    ELSE [p EXCEPT !.operators = Append(@, o)]

IsOperatorToken(p) == p.input # <<>> /\ Head(p.input).tok = "Operator"

RECURSIVE Expr(_)
RECURSIVE Term(_)
RECURSIVE Items(_, _, _)

\* Parser::in_scope(Self::expr)
InScopeExpr(p) == IF p.status # "ok" THEN p ELSE PopParserScope(Expr(PushParserScope(p)))

\* Parser::term, the postfix operators after the term `id`
RECURSIVE Postfix(_, _)
Postfix(p, id) ==
    IF p.status # "ok" THEN p
    ELSE IF IsOperatorToken(p) /\ IsUnaryPostfix(Head(p.input).o)
         THEN Postfix(NextToken(PushOperator(p, Head(p.input).o)), id)
    ELSE Returning(p, id)

\* Parser::conditional
Otherwise(p, cond, expr) ==
    IF p.status # "ok" THEN p ELSE PushOperand(p, NodeIf(cond, expr, <<p.id>>))

Then(p, cond) ==
    IF p.status # "ok" THEN p
    ELSE IF NextIs(p, TokIdentifier(<<"e", "l", "s", "e">>))
         THEN Otherwise(InScopeExpr(NextToken(p)), cond, p.id)
    ELSE PushOperand(p, NodeIf(cond, p.id, <<>>))

Condition(p) ==
    IF p.status # "ok" THEN p
    ELSE Then(InScopeExpr(Expect(p, TokIdentifier(<<"t", "h", "e", "n">>))), p.id)

Conditional(p) == Condition(InScopeExpr(p))

\* Parser::_list and Parser::_call: the expressions up to `close`, which is
\* expected after them
Item(p, close, ids) ==
    IF p.status # "ok" THEN p
    ELSE IF NextIs(p, TokComma)
         THEN Items(Expect(p, TokComma), close, Append(ids, p.id))
    ELSE Returning(Expect(p, close), Append(ids, p.id))

Items(p, close, ids) == Item(Expr(p), close, ids)

Listed(p, close) ==
    IF p.status # "ok" THEN p
    ELSE IF NextIs(p, close) THEN Returning(Expect(p, close), <<>>)
    ELSE Items(p, close, <<>>)

\* Parser::list.  The id of a Listed parser is the list of the ids read.
ListNode(p) == IF p.status # "ok" THEN p ELSE PushOperand(p, NodeList(p.id))

ParseList(p) == ListNode(PopParserScope(Listed(PushParserScope(p), TokBracketClose)))

\* Parser::call
CallNode(p, name) ==
    IF p.status # "ok" THEN p
    ELSE [p EXCEPT !.ast = Append(@, NodeCall(name, p.id)), !.id = Len(p.ast)]

Called(p) == IF p.status # "ok" THEN p ELSE [p EXCEPT !.operands = Append(@, p.id)]

ParseCall(p, name) ==
    Called(PopParserScope(
        CallNode(Listed(Expect(PushParserScope(p), TokParenOpen), TokParenClose), name)))

\* Parser::term, Tok::ParenOpen
Closed(p, id) ==
    IF p.status # "ok" THEN p ELSE Returning([p EXCEPT !.operators = Front(@)], id)

Parenthesised(p) == IF p.status # "ok" THEN p ELSE Closed(Expect(p, TokParenClose), p.id)

\* Value::Decimal of a literal
DecimalLiteral(whole, frac) ==
    IF frac = <<>> THEN ValueDecimal(whole)
    ELSE [tag |-> "Decimal", roll |-> NoRoll, rolls |-> <<>>, result |-> whole, frac |-> frac]

\* Parser::term, the match on the token `t` just taken
Named(p, name) ==
    CASE name = <<"i", "f">> -> Conditional(p)
      [] name \in {<<"t", "h", "e", "n">>, <<"e", "l", "s", "e">>} -> Fail(p)
      [] name = <<"t", "r", "u", "e">> -> PushOperand(p, NodeValue(ValueBool(TRUE)))
      [] name = <<"f", "a", "l", "s", "e">> -> PushOperand(p, NodeValue(ValueBool(FALSE)))
      [] OTHER -> IF NextIs(p, TokParenOpen) THEN ParseCall(p, name)
                  ELSE PushOperand(p, NodeIdentifier(name))

Prefixed(p, o) ==
    IF IsUnaryPrefix(o) THEN Term(PushOperator(p, o))
    ELSE IF o = "Sub" THEN Term(PushOperator(p, "Neg"))
    ELSE Fail(p)

Matched(p, t) ==
    CASE t.tok = "Identifier" -> Named(p, t.name)
      [] t.tok = "Natural" -> PushOperand(p, NodeValue(ValueNatural(t.n)))
      [] t.tok = "Decimal" -> PushOperand(p, NodeValue(DecimalLiteral(t.whole, t.frac)))
      [] t.tok = "Roll" -> PushOperand(p, NodeValue(ValueRoll(Roll(t.q, t.d, FALSE, FALSE))))
      [] t.tok = "String" -> PushOperand(p, NodeValue(ValueString(t.s)))
      [] t.tok = "ParenOpen" ->
            Parenthesised(Expr([p EXCEPT !.operators = Append(@, "Sentinel")]))
      [] t.tok = "BracketOpen" -> ParseList(p)
      [] t.tok = "Operator" -> Prefixed(p, t.o)
      [] OTHER -> Fail(p)

PostfixOfTerm(p) == Postfix(p, p.id)

Term(p) ==
    IF p.input = <<>> THEN Fail(p)
    ELSE PostfixOfTerm(Matched(NextToken(p), Head(p.input)))

\* Parser::expr, the binary operators and terms after the first term
RECURSIVE Operators(_)
Operators(p) ==
    IF p.status # "ok" THEN p
    ELSE IF IsOperatorToken(p) /\ IsBinary(Head(p.input).o)
         THEN Operators(Term(NextToken(PushOperator(p, Head(p.input).o))))
    ELSE p

\* Parser::expr, the operators popped down to the Sentinel
RECURSIVE Reduced(_, _)
Reduced(p, id) ==
    IF p.status # "ok" THEN p
    ELSE IF p.operators # <<>> /\ Last(p.operators) # "Sentinel"
         THEN Reduced(PopOperator(p), PopOperator(p).id)
    ELSE Returning(p, id)

Reduce(p, id) == Reduced(Operators(p), id)

FirstTerm(p) == IF p.status # "ok" THEN p ELSE Reduce(p, p.id)

Expr(p) == FirstTerm(Term(p))

\* Res<Ast>
Parsed(status, ast) == [status |-> status, ast |-> ast]

ConsumedMut(p) ==
    IF p.status = "ok" THEN Parsed("ok", p.ast) ELSE Parsed("err", <<>>)

\* Parser::parse
Consumed(p) ==
    IF p.status = "ok" /\ p.input = <<>> THEN Parsed("ok", p.ast) ELSE Parsed("err", <<>>)

\* Parser::parse_first
ParseFirst(p) ==
    IF p.input = <<>> THEN p ELSE Expr([p EXCEPT !.operators = Append(@, "Sentinel")])

Parse(toks) == Consumed(ParseFirst(NewParser(toks)))

\* main.rs parse: parser::parse(&token::tokenise(input)?)
ParseTokens(tokens) ==
    IF tokens.status # "ok" THEN Parsed(tokens.status, <<>>) ELSE Parse(Toks(tokens.tokens))

ParseText(input, profile) == ParseTokens(Tokenise(input, profile))

----------------------------------------------------------------------------
(* Display of a Value, Ast::render and Ast::subtree.                        *)

DigitOf(d) == CHOOSE c \in Digits : DigitValue(c) = d

\* Display of an unsigned and of a signed integer
RECURSIVE ShowNatural(_)
ShowNatural(n) ==
    IF n < 10 THEN <<DigitOf(n)>> ELSE ShowNatural(n \div 10) \o <<DigitOf(n % 10)>>

ShowInteger(n) == IF n < 0 THEN <<"-">> \o ShowNatural(-n) ELSE ShowNatural(n)

\* join(", ")
RECURSIVE Joined(_)
Joined(parts) ==
    IF parts = <<>> THEN <<>>
    ELSE IF Len(parts) = 1 THEN parts[1]
    ELSE parts[1] \o <<",", " ">> \o Joined(Tail(parts))

Bracketed(parts) == <<"[">> \o Joined(parts) \o <<"]">>

\* impl Display for Roll
DisplayRoll(r) ==
    (IF r.quantity = 1 THEN <<>> ELSE ShowNatural(r.quantity))
        \o <<"d">> \o ShowNatural(r.die)
        \o (IF r.advantage /\ ~r.disadvantage THEN <<"a">>
            ELSE IF r.disadvantage /\ ~r.advantage THEN <<"d">>
            ELSE <<>>)

\* (v * 100.0).round(), of the decimal written whole.frac
DigitAt(s, i) == IF i <= Len(s) THEN DigitValue(s[i]) ELSE 0

Hundredths(whole, frac) ==
    100 * whole + 10 * DigitAt(frac, 1) + DigitAt(frac, 2)
        + (IF DigitAt(frac, 3) >= 5 THEN 1 ELSE 0)

\* Display of the f64 h / 100.0
ShowHundredths(h) ==
    IF h % 100 = 0 THEN ShowNatural(h \div 100)
    ELSE IF h % 10 = 0 THEN ShowNatural(h \div 100) \o <<".", DigitOf((h % 100) \div 10)>>
    ELSE ShowNatural(h \div 100) \o <<".", DigitOf((h % 100) \div 10), DigitOf(h % 10)>>

DisplayDecimal(v) ==
    IF "frac" \in DOMAIN v THEN ShowHundredths(Hundredths(v.result, v.frac))
    ELSE ShowInteger(v.result)

\* str::replace('"', "\\\"")
RECURSIVE ReplaceQuotes(_)
ReplaceQuotes(s) ==
    IF s = <<>> THEN <<>>
    ELSE (IF Head(s) = Quote THEN <<Backslash, Quote>> ELSE <<Head(s)>>)
            \o ReplaceQuotes(Tail(s))

\* impl Display for Value
RECURSIVE Display(_)
Display(v) ==
    CASE v.tag = "Bool" ->
            IF v.result = 1 THEN <<"t", "r", "u", "e">> ELSE <<"f", "a", "l", "s", "e">>
      [] v.tag = "Decimal" -> DisplayDecimal(v)
      [] v.tag = "Natural" -> ShowInteger(v.result)
      [] v.tag = "Outcome" -> ShowNatural(v.result)
      [] v.tag = "Roll" -> DisplayRoll(v.roll)
      [] v.tag = "Rolls" -> Bracketed([i \in 1..Len(v.rolls) |-> ShowNatural(v.rolls[i])])
      [] v.tag = "List" -> Bracketed([i \in 1..Len(v.items) |-> Display(v.items[i])])
      [] v.tag = "String" -> <<Quote>> \o ReplaceQuotes(v.chars) \o <<Quote>>
      [] v.tag = "Empty" -> <<"(", ")">>

\* Operator::char as Ast::_render calls it: the characters of the operator
OperatorChar(o) == OperatorChars(o)

ERROR == <<"E", "R", "R", "O", "R">>

InParens(s) == <<"(">> \o s \o <<")">>

\* Ast::_render
RECURSIVE RenderAt(_, _)
RenderValue(v) ==
    CASE v.tag = "Outcome" -> DisplayRoll(v.roll)
      [] v.tag = "Empty" -> ERROR
      [] OTHER -> Display(v)

RenderEach(ast, ids) == [i \in 1..Len(ids) |-> RenderAt(ast, ids[i])]

RenderNode(ast, n) ==
    CASE n.node = "Value" -> RenderValue(n.value)
      [] n.node = "Identifier" -> n.name
      [] n.node = "List" -> Bracketed(RenderEach(ast, n.values))
      [] n.node = "Binary" ->
            RenderAt(ast, n.lhs) \o <<" ">> \o OperatorChar(n.o) \o <<" ">>
                \o RenderAt(ast, n.rhs)
      [] n.node = "Unary" ->
            IF IsUnaryPostfix(n.o) THEN RenderAt(ast, n.arg) \o OperatorChar(n.o)
            ELSE OperatorChar(n.o) \o RenderAt(ast, n.arg)
      [] n.node = "Call" -> n.name \o <<"(">> \o Joined(RenderEach(ast, n.args)) \o <<")">>
      [] n.node = "If" ->
            <<"i", "f", " ">> \o InParens(RenderAt(ast, n.cond))
                \o <<" ", "t", "h", "e", "n", " ">> \o InParens(RenderAt(ast, n.expr))
                \o (IF n.fail = <<>> THEN <<>>
                    ELSE <<" ", "e", "l", "s", "e", " ">>
                            \o InParens(RenderAt(ast, n.fail[1])))

RenderAt(ast, id) == IF id + 1 \in DOMAIN ast THEN RenderNode(ast, Get(ast, id)) ELSE ERROR

\* Ast::render
Render(ast) == RenderAt(ast, Start(ast))

\* What Node::copy has done: the arena `to`, whether it returned Some, and
\* the index (or, from a loop, the indices) it returned
Copied(to, id, ok) == [to |-> to, id |-> id, ok |-> ok]

\* Ast::add
Add(to, n) == Copied(Append(to, n), Len(to), TRUE)

\* Node::copy, the node built over the copies `ids` of the children
RebuiltMut(n, ids) == n

Rebuilt(n, ids) ==
    CASE n.node = "List" -> NodeList(ids)
      [] n.node = "Call" -> NodeCall(n.name, ids)
      [] n.node = "Binary" -> NodeBinary(ids[1], n.o, ids[2])
      [] n.node = "Unary" -> NodeUnary(ids[1], n.o)
      [] n.node = "If" -> NodeIf(ids[1], ids[2], SubSeq(ids, 3, Len(ids)))

RECURSIVE Copy(_, _, _)
RECURSIVE CopyEach(_, _, _, _)

\* Node::copy, the children in the order of the fields, each with `?`
CopyNext(from, r, ids, done) ==
    IF ~r.ok THEN r ELSE CopyEach(from, r.to, Tail(ids), Append(done, r.id))

CopyEach(from, to, ids, done) ==
    IF ids = <<>> THEN Copied(to, done, TRUE)
    ELSE CopyNext(from, Copy(from, to, Head(ids)), ids, done)

\* Node::copy, Node::If: fail.and_then(from.get).and_then(copy), without `?`
CopiedFail(r, ids) == IF r.ok THEN Copied(r.to, Append(ids, r.id), TRUE) ELSE Copied(r.to, ids, TRUE)

CopyFail(from, r, fail) ==
    IF ~r.ok \/ fail = <<>> THEN r ELSE CopiedFail(Copy(from, r.to, fail[1]), r.id)

Added(r, n) == IF ~r.ok THEN r ELSE Add(r.to, Rebuilt(n, r.id))

CopyNode(from, to, n) ==
    CASE n.node \in {"Value", "Identifier"} -> Add(to, n)
      [] n.node = "If" ->
            Added(CopyFail(from, CopyEach(from, to, <<n.cond, n.expr>>, <<>>), n.fail), n)
      [] OTHER -> Added(CopyEach(from, to, Children(n), <<>>), n)

\* from.get(id)?.copy(from, to)
Copy(from, to, id) ==
    IF id + 1 \in DOMAIN from THEN CopyNode(from, to, Get(from, id)) ELSE Copied(to, 0, FALSE)

\* Ast::subtree
Subtree(ast, root) ==
    IF root + 1 \in DOMAIN ast
    THEN [status |-> "ok", root |-> root, ast |-> Copy(ast, <<>>, root).to]
    ELSE [status |-> "err", root |-> root, ast |-> <<>>]

----------------------------------------------------------------------------
(* Parsing, rendering and copying: the texts, and one call of each.        *)

\* The operators of the chains: right-associative Assign and Exp, and
\* left-associative Add, Sub, of one precedence, and Mul
ChainOperators == {"Assign", "Add", "Sub", "Mul", "Exp"}

\* The operand at position i of a chain: the digit i, after a minus or not
ChainOperand(negs, i) == (IF negs[i] THEN <<"-">> ELSE <<>>) \o <<DigitOf(i)>>

\* The chain of the first k operators of `ops` over the operands 1..k+1
RECURSIVE ChainText(_, _, _)
ChainText(ops, negs, k) ==
    IF k = 0 THEN ChainOperand(negs, 1)
    ELSE ChainText(ops, negs, k - 1) \o <<" ">> \o OperatorChars(ops[k]) \o <<" ">>
            \o ChainOperand(negs, k + 1)

Chains(k) ==
    {ChainText(ops, negs, k) : ops \in [1..k -> ChainOperators], negs \in [1..(k + 1) -> BOOLEAN]}

\* test_precedence and test_neg_precedence
     PrecedenceExample
     ==
     <<"-", "2", " ", "+", " ", "3", " ", "^", " ", "4", " ", "*", " ", "5", " ", "-", " ", "6">>
NegPrecedenceExample == <<"-", "2", " ", "^", " ", "3">>

\* Sources with parentheses, lists, calls, conditionals, rolls and errors
SourceExamples ==
    {PrecedenceExample, NegPrecedenceExample,
     <<>>,
     <<"(", "1", " ", "+", " ", "2", ")", " ", "*", " ", "3">>,
     <<"-", "(", "1", " ", "+", " ", "2", ")">>,
     <<"2", " ", "^", " ", "(", "3", " ", "^", " ", "4", ")">>,
     <<"(", "8", " ", "-", " ", "4", ")", " ", "-", " ", "2">>,
     <<"8", " ", "/", " ", "4", " ", "/", " ", "2">>,
     <<"1", " ", "=", "=", " ", "2", " ", ">", "=", " ", "3">>,
     <<"1", " ", "<", "=", " ", "2", " ", ">", " ", "3">>,
     <<"1", " ", "<", " ", "2", " ", "&", " ", "3", " ", "|", " ", "4">>,
     <<"6", " ", "/", " ", "2", " ", "*", " ", "3">>,
     <<"a", " ", "&", " ", "-", "b", " ", "|", " ", "c", " ", "&", " ", "d">>,
     <<"a", " ", "=", " ", "b", " ", "&", " ", "c", " ", "<", " ", "d", " ", "+", " ", "e">>,
     <<"v", "a", "r", " ", "=", " ", "2", " ", "+", " ", "3">>,
     <<"4", " ", "+", " ", "3", " ", "-", " ", "2", " ", "*", " ", "5">>,
     <<"-", "5", "^", "3", "*", "3">>,
     <<"!", "a", " ", "&", " ", "b">>,
     <<"a", " ", ":", "=", " ", "1", " ", ";", " ", "b">>,
     <<"i", "f", " ", "t", "r", "u", "e", " ", "t", "h", "e", "n", " ", "1">>,
     <<"i", "f", " ", "a", " ", "t", "h", "e", "n", " ", "[", "1", ",", " ", "2", "]", " ", "e", "l", "s", "e", " ", "f", "(", "x", ")">>,
     <<"f", "n", "(", "x", ",", " ", "y", ")", " ", "=", " ", "i", "f", " ", "x", " ", "t", "h", "e", "n", " ", "y", " ", "e", "l", "s", "e", " ", "-", "z">>,
     <<"[", "[", Quote, "a", Quote, ",", " ", "1", "]", ",", " ", "8", "d", "8", "]">>,
     <<"o", "u", "t", "e", "r", "(", "i", "n", "n", "e", "r", "(", ")", ",", " ", "f", "(", "3", ")", ")">>,
     <<"d", "2", "0", "a", " ", "+", " ", "d", "4", "d">>,
     <<"1", "0", "d", "8", "k", "8">>,
     <<"1", ".", "5", " ", "+", " ", "2">>,
     <<"1", " ", "+">>,
     <<"(", "1">>,
     <<"1", " ", "2">>,
     <<"t", "h", "e", "n">>,
     <<"[", "1", ",", " ">>,
     <<"f", "(", "1">>
     }

SourceTexts == UNION {Chains(k) : k \in 0..MaxOps} \cup SourceExamples

InitParse ==
    /\ scopes = NewContext
    /\ stack = <<>>
    /\ err = FALSE
    /\ ev = NoEvent
    /\ RollIdle
    /\ KeepIdle
    /\ ExprIdle
    /\ build = "release"
    /\ text \in SourceTexts
    /\ lexed = NotCalled
    /\ ParseIdle
    /\ ShowIdle
    /\ SyntaxIdle
    /\ DumpIdle

ParseFrame == UNCHANGED <<ctxVars, rollVars, keepVars, exprVars, lexVars, showVars, syntaxVars, dumpVars>>

\* main.rs parse: parser::parse(&token::tokenise(input)?)
ParseSource ==
    /\ parsed = NotCalled
    /\ \E r \in {Tokenise(text, build)} :
        /\ source' = IF r.status = "ok" THEN Toks(r.tokens) ELSE <<>>
        /\ parsed' = ParseTokens(r)
    /\ UNCHANGED <<rendered, reparsed, sub>>
    /\ ParseFrame

\* Ast::render of what was parsed
RenderParsed ==
    /\ parsed.status = "ok"
    /\ rendered = NotCalled
    /\ rendered' = [status |-> "ok", chars |-> Render(parsed.ast)]
    /\ UNCHANGED <<source, parsed, reparsed, sub>>
    /\ ParseFrame

\* parse of the rendered text
Reparse ==
    /\ rendered.status = "ok"
    /\ reparsed = NotCalled
    /\ reparsed' = ParseText(rendered.chars, build)
    /\ UNCHANGED <<source, parsed, rendered, sub>>
    /\ ParseFrame

\* Ast::subtree(&self, root)
SubtreeAt(root) ==
    /\ parsed.status = "ok"
    /\ sub = NotCalled
    /\ sub' = Subtree(parsed.ast, root)
    /\ UNCHANGED <<source, parsed, rendered, reparsed>>
    /\ ParseFrame

\* The indices of the parsed arena, and the first index past it
Roots == IF parsed.status = "ok" THEN 0..Len(parsed.ast) ELSE {}

NextParse ==
    \/ ParseSource
    \/ RenderParsed
    \/ Reparse
    \/ \E root \in Roots : SubtreeAt(root)

SpecParse == InitParse /\ [][NextParse]_vars

----------------------------------------------------------------------------
(* Properties of the parser, of render and of subtree.                      *)

\* A token that is an operand of a chain
IsOperand(t) ==
    \/ t.tok = "Natural"
    \/ /\ t.tok = "Identifier"
       /\ t.name \notin {<<"i", "f">>, <<"t", "h", "e", "n">>, <<"e", "l", "s", "e">>,
                         <<"t", "r", "u", "e">>, <<"f", "a", "l", "s", "e">>}

\* Operands joined by binary operators, each operand after any number of
\* prefix minus signs
RECURSIVE ChainFrom(_, _)
ChainFrom(toks, operand) ==
    IF operand
    THEN /\ toks # <<>>
         /\ \/ Head(toks) = TokOperator("Sub") /\ ChainFrom(Tail(toks), TRUE)
            \/ IsOperand(Head(toks)) /\ ChainFrom(Tail(toks), FALSE)
    ELSE \/ toks = <<>>
         \/ /\ Head(toks).tok = "Operator"
            /\ IsBinary(Head(toks).o)
            /\ ChainFrom(Tail(toks), TRUE)

IsChain(toks) == ChainFrom(toks, TRUE)

\* The tokens of the tree at `id`, left to right
RECURSIVE Yield(_, _)
YieldNode(ast, n) ==
    CASE n.node = "Value" -> <<TokNatural(n.value.result)>>
      [] n.node = "Identifier" -> <<TokIdentifier(n.name)>>
      [] n.node = "Binary" -> Yield(ast, n.lhs) \o <<TokOperator(n.o)>> \o Yield(ast, n.rhs)
      [] n.node = "Unary" -> <<TokOperator("Sub")>> \o Yield(ast, n.arg)
      [] OTHER -> <<>>

Yield(ast, id) == YieldNode(ast, Get(ast, id))

\* The operand `c` of the binary operator `o` binds tighter than `o`, or as
\* tight on the side `o` associates to
GroupedLeft(c, o) ==
    /\ c.node = "Binary" =>
        \/ Precedence(c.o) > Precedence(o)
        \/ Precedence(c.o) = Precedence(o) /\ LeftAssociative(o)
    /\ c.node = "Unary" => Precedence(c.o) > Precedence(o)

GroupedRight(c, o) ==
    c.node = "Binary" =>
        \/ Precedence(c.o) > Precedence(o)
        \/ Precedence(c.o) = Precedence(o) /\ ~LeftAssociative(o)

Grouped(ast, n) ==
    /\ n.node = "Binary" =>
        GroupedLeft(Get(ast, n.lhs), n.o) /\ GroupedRight(Get(ast, n.rhs), n.o)
    /\ n.node = "Unary" =>
        /\ n.o = "Neg"
        /\ Get(ast, n.arg).node = "Binary" =>
                Precedence(Get(ast, n.arg).o) > Precedence("Neg")

\* test_precedence: Sub(Add(Neg(2), Mul(Exp(3, 4), 5)), 6)
PrecedenceArena ==
    <<NodeValue(ValueNatural(2)), NodeUnary(0, "Neg"),
      NodeValue(ValueNatural(3)), NodeValue(ValueNatural(4)), NodeBinary(2, "Exp", 3),
      NodeValue(ValueNatural(5)), NodeBinary(4, "Mul", 5), NodeBinary(1, "Add", 6),
      NodeValue(ValueNatural(6)), NodeBinary(7, "Sub", 8)>>

\* test_neg_precedence: Neg(Exp(2, 3))
NegPrecedenceArena ==
    <<NodeValue(ValueNatural(2)), NodeValue(ValueNatural(3)),
      NodeBinary(0, "Exp", 1), NodeUnary(2, "Neg")>>

\* C13: a chain of operands joined by binary operators and prefix minus
\* parses, to the tree over its tokens in which every operand of an operator
\* binds tighter than the operator, or as tight on the side the operator
\* associates to (left for Add, Sub, Mul, Div, the comparisons, And, Or;
\* right for Exp, Assign), and the operand of a negation is a binary
\* expression only of Exp; -2 + 3 ^ 4 * 5 - 6 is Sub(Add(Neg(2),
\* Mul(Exp(3,4),5)), 6) and -2 ^ 3 is Neg(Exp(2,3)).
C13_PrecedenceAndAssociativity ==
    (parsed # NotCalled /\ IsChain(source)) =>
        /\ parsed.status = "ok"
        /\ Yield(parsed.ast, Start(parsed.ast)) = source
        /\ \A i \in 1..Len(parsed.ast) : Grouped(parsed.ast, parsed.ast[i])
        /\ text = PrecedenceExample => parsed.ast = PrecedenceArena
        /\ text = NegPrecedenceExample => parsed.ast = NegPrecedenceArena

C13_Witness ==
    /\ text = PrecedenceExample
    /\ IsChain(source)
    /\ parsed.status = "ok"
    /\ Get(parsed.ast, Start(parsed.ast)) = NodeBinary(7, "Sub", 8)

\* What a node is, without the indices of its children
Shape(n) ==
    [node |-> n.node,
     o |-> IF n.node \in {"Binary", "Unary"} THEN n.o ELSE "",
     name |-> IF n.node \in {"Identifier", "Call"} THEN n.name ELSE <<>>,
     value |-> IF n.node = "Value" THEN n.value ELSE ValueEmpty,
     fail |-> n.node = "If" /\ n.fail # <<>>]

\* The tree under the node at `id`
RECURSIVE Tree(_, _)
TreeNode(ast, n) ==
    [shape |-> Shape(n),
     children |-> [i \in 1..Len(Children(n)) |-> Tree(ast, Children(n)[i])]]

Tree(ast, id) == TreeNode(ast, Get(ast, id))

\* The tree of an arena, from start(); none of the empty arena
TreeOf(ast) == IF ast = <<>> THEN <<>> ELSE <<Tree(ast, Start(ast))>>

\* C14: tokenising and parsing the rendering of a parsed AST succeeds and
\* gives a tree structurally equal to the original.
C14_RenderRoundTrip ==
    reparsed # NotCalled =>
        /\ reparsed.status = "ok"
        /\ TreeOf(reparsed.ast) = TreeOf(parsed.ast)

----------------------------------------------------------------------------
(* Displaying a value and evaluating the text.                              *)

\* evaluate, of the node at `id`: the arm of Node::Value.  The Display of a
\* value without lists and rolls parses to no other node.
EvaluateAt(ast, id) ==
    IF id + 1 \notin DOMAIN ast THEN [status |-> "err"]
    ELSE IF Get(ast, id).node = "Value"
    THEN [status |-> "ok", outcome |-> NewOutcome(Get(ast, id).value)]
    ELSE [status |-> "other"]

\* Outcome::resolved, of an Outcome whose value is not a Roll
OutcomeResolved(r) ==
    IF r.status # "ok" THEN r
    ELSE IF r.outcome.value.tag = "Roll" THEN [status |-> "other"]
    ELSE r

\* main.rs eval: evaluate(&parse(input)?, ..).and_then(|oc| oc.resolved())
EvalParsed(p) ==
    IF p.status # "ok" THEN [status |-> "err"]
    ELSE OutcomeResolved(EvaluateAt(p.ast, Start(p.ast)))

EvalText(input, profile) == EvalParsed(ParseText(input, profile))

\* The characters of the strings that are displayed
ShowChars == {"a", Quote, Backslash, Newline, Tab}

Strings(k) == [1..k -> ShowChars]

\* The values that are displayed: none holds a Roll
ShownValues ==
    {ValueEmpty, ValueBool(TRUE), ValueBool(FALSE)}
        \cup {ValueNatural(n) : n \in 0..MaxVal}
        \cup {ValueDecimal(n) : n \in 0..MaxVal}
        \cup {ValueString(s) : s \in UNION {Strings(k) : k \in 0..MaxStr}}

InitShow ==
    /\ scopes = NewContext
    /\ stack = <<>>
    /\ err = FALSE
    /\ ev = NoEvent
    /\ RollIdle
    /\ KeepIdle
    /\ ExprIdle
    /\ LexIdle
    /\ ParseIdle
    /\ shownOf \in ShownValues
    /\ shown = NotCalled
    /\ back = NotCalled
    /\ SyntaxIdle
    /\ DumpIdle

ShowFrame == UNCHANGED <<ctxVars, rollVars, keepVars, exprVars, lexVars, parseVars, syntaxVars, dumpVars>>

\* val.to_string()
ShowValue ==
    /\ shown = NotCalled
    /\ shown' = [status |-> "ok", chars |-> Display(shownOf)]
    /\ UNCHANGED <<shownOf, back>>
    /\ ShowFrame

\* eval(&val.to_string(), &mut Context::empty())
EvalShown ==
    /\ shown.status = "ok"
    /\ back = NotCalled
    /\ back' = EvalText(shown.chars, build)
    /\ UNCHANGED <<shownOf, shown>>
    /\ ShowFrame

NextShow ==
    \/ ShowValue
    \/ EvalShown

SpecShow == InitShow /\ [][NextShow]_vars

\* C15: evaluating the Display text of a value that holds no unresolved Roll
\* gives a value equal to it, for strings with quotes, backslashes, newlines
\* and tabs too.
C15_DisplayRoundTrip ==
    back # NotCalled => back.status = "ok" /\ back.outcome.value = shownOf

----------------------------------------------------------------------------
(* SpecSyntax: Parser::parse on a token list, one step of the top-level    *)
(* expr at a time.  A term that is not a prefix operator is read in one    *)
(* step with everything nested in it (a parenthesised expression, the      *)
(* arguments of a call, the items of a list, the branches of an if).       *)

MaxToks == 3

\* The tokens of the short token lists
SyntaxToks ==
    {TokNatural(1), TokIdentifier(<<"f">>), TokParenOpen, TokParenClose,
     TokBracketOpen, TokBracketClose, TokComma,
     TokOperator("Sub"), TokOperator("Exp"), TokOperator("Adv")}

SyntaxTexts ==
    SourceExamples \cup
    {<<"2", " ", "^", " ", "d", "2", "0", "a">>,
     <<"1", " ", "-", " ", "d", "2", "0", "a">>,
     <<"1", "0", "d", "8", "k", "8", "a">>,
     <<"-", "d", "2", "0", "a">>,
     <<"1", " ", "+", " ", "f", "(", "2", ",", " ", "[", "3", "]", ")", " ", "*", " ", "4">>,
     <<"2", " ", "*", " ", "i", "f", " ", "a", " ", "t", "h", "e", "n", " ", "1", " ",
       "e", "l", "s", "e", " ", "2", " ", "+", " ", "3">>,
     <<"1", " ", "+", " ", "i", "f", " ", "a", " ", "1">>,
     <<"1", " ", "+", " ", "f", "(", "2", " ", "+">>,
     <<"1", " ", "*", " ", "[", "2", " ", "+", " ", "3", ",", " ", "(", "4">>,
     <<"2", " ", "^", " ", "(", "3", " ", "-", " ", "1", " ", "-", " ", "1", ")", " ", "^", " ", "2">>,
     <<"2", " ", "*", " ", "(", "3", " ", "+">>,
     <<"1", " ", ")">>, <<"1", " ", "]">>, <<"(", "1", "]">>,
     <<"a", " ", "=", " ", "1", " ", "b", " ", "=", " ", "2">>,
     <<"f", "(", "x", ")", " ", "=", " ", "x", " ", "g", "(", ")", " ", "[", "1", "]">>}

SyntaxExamples ==
    {Toks(Tokenise(t, "release").tokens) :
        t \in {u \in SyntaxTexts : Tokenise(u, "release").status = "ok"}}

TokenLists == UNION {[1..k -> SyntaxToks] : k \in 0..MaxToks} \cup SyntaxExamples

\* The Parser `p` made for `toks`, where it is in parse (pc), and what parse
\* has returned
Cursor(toks, p, pc, res) == [toks |-> toks, p |-> p, pc |-> pc, res |-> res]

\* Parser::parse after parse_first: Ok(self.ast) when the input is empty
Leave(c, p) == Cursor(c.toks, p, "returned", Consumed(p))

\* What comes after a term or a postfix operator: the loop of term over the
\* postfix operators, then the loop of expr over the binary operators, then
\* the loop of expr that pops down to the Sentinel
AfterTerm(p) ==
    IF IsOperatorToken(p) /\ IsUnaryPostfix(Head(p.input).o) THEN "postfix"
    ELSE IF IsOperatorToken(p) /\ IsBinary(Head(p.input).o) THEN "binary"
    ELSE "drain"

Proceed(c, p) == IF p.status = "ok" THEN Cursor(c.toks, p, AfterTerm(p), c.res) ELSE Leave(c, p)

\* Parser::term, Tok::Operator: the operator a prefix token stands for
PrefixOperatorOf(t) == IF IsUnaryPrefix(t.o) THEN t.o ELSE "Neg"

IsPrefixToken(p) ==
    IsOperatorToken(p) /\ (IsUnaryPrefix(Head(p.input).o) \/ Head(p.input).o = "Sub")

InitSyntax ==
    /\ scopes = NewContext
    /\ stack = <<>>
    /\ err = FALSE
    /\ ev = NoEvent
    /\ RollIdle
    /\ KeepIdle
    /\ ExprIdle
    /\ LexIdle
    /\ ParseIdle
    /\ ShowIdle
    /\ parser \in {Cursor(toks, NewParser(toks), "parse_first", NotCalled) : toks \in TokenLists}
    /\ tome = NotCalled
    /\ DumpIdle

SyntaxFrame ==
    UNCHANGED <<ctxVars, rollVars, keepVars, exprVars, lexVars, parseVars, showVars,
                tome, dumpVars>>

\* Parser::parse_first up to the call of expr
EnterParseFirst ==
    /\ parser.pc = "parse_first"
    /\ parser' = IF parser.p.input = <<>> THEN Leave(parser, parser.p)
                 ELSE Cursor(parser.toks,
                             [parser.p EXCEPT !.operators = Append(@, "Sentinel")],
                             "term", parser.res)
    /\ SyntaxFrame

\* Parser::term on a prefix operator: push_operator, then term again
ReadPrefix ==
    /\ parser.pc = "term"
    /\ IsPrefixToken(parser.p)
    /\ parser' = Cursor(parser.toks,
                        PushOperator(NextToken(parser.p),
                                     PrefixOperatorOf(Head(parser.p.input))),
                        "term", parser.res)
    /\ SyntaxFrame

\* Parser::term on any other token, or at the end of the input
ReadTerm ==
    /\ parser.pc = "term"
    /\ ~IsPrefixToken(parser.p)
    /\ parser' = IF parser.p.input = <<>> THEN Leave(parser, Fail(parser.p))
                 ELSE Proceed(parser, Matched(NextToken(parser.p), Head(parser.p.input)))
    /\ SyntaxFrame

\* Parser::term, one round of the loop over the postfix operators
ReadPostfix ==
    /\ parser.pc = "postfix"
    /\ parser' = Proceed(parser, NextToken(PushOperator(parser.p, Head(parser.p.input).o)))
    /\ SyntaxFrame

\* Parser::expr, one round of the loop over the binary operators, up to term
ReadBinary ==
    /\ parser.pc = "binary"
    /\ parser' = Cursor(parser.toks,
                        NextToken(PushOperator(parser.p, Head(parser.p.input).o)),
                        "term", parser.res)
    /\ SyntaxFrame

DrainingMut(p) == p.operators # <<>>

\* Parser::expr, the condition of the loop that pops the operators
Draining(p) == p.operators # <<>> /\ Last(p.operators) # "Sentinel"

\* Parser::expr, one round of that loop
Drain ==
    /\ parser.pc = "drain"
    /\ Draining(parser.p)
    /\ parser' = IF PopOperator(parser.p).status = "ok"
                 THEN Cursor(parser.toks, PopOperator(parser.p), "drain", parser.res)
                 ELSE Leave(parser, PopOperator(parser.p))
    /\ SyntaxFrame

\* Parser::expr and parse_first return, and parse looks at what is left
ReturnParsed ==
    /\ parser.pc = "drain"
    /\ ~Draining(parser.p)
    /\ parser' = Leave(parser, parser.p)
    /\ SyntaxFrame

NextSyntax ==
    \/ EnterParseFirst
    \/ ReadPrefix
    \/ ReadTerm
    \/ ReadPostfix
    \/ ReadBinary
    \/ Drain
    \/ ReturnParsed

SpecSyntax == InitSyntax /\ [][NextSyntax]_vars

----------------------------------------------------------------------------
(* Properties of the parser's stacks and of what parse accepts.            *)

HasReturned == parser.pc = "returned"

\* The steps taken one at a time return what Parser::parse returns.
StepsAgree == HasReturned => parser.res = Parse(parser.toks)

\* What is left open after the tokens, scanning the parentheses and the
\* brackets; `matched` is FALSE when a closing one closes nothing that is open
Nested(matched, open) == [matched |-> matched, open |-> open]

RECURSIVE Nesting(_, _)
Closing(toks, open, opener) ==
    IF open # <<>> /\ Last(open) = opener THEN Nesting(Tail(toks), Front(open))
    ELSE Nested(FALSE, open)

Nesting(toks, open) ==
    IF toks = <<>> THEN Nested(TRUE, open)
    ELSE CASE Head(toks).tok \in {"ParenOpen", "BracketOpen"} ->
                Nesting(Tail(toks), Append(open, Head(toks).tok))
           [] Head(toks).tok = "ParenClose" -> Closing(toks, open, "ParenOpen")
           [] Head(toks).tok = "BracketClose" -> Closing(toks, open, "BracketOpen")
           [] OTHER -> Nesting(Tail(toks), open)

UnmatchedClose(toks) == ~Nesting(toks, <<>>).matched

EndsInside(toks) == Nesting(toks, <<>>).matched /\ Nesting(toks, <<>>).open # <<>>

\* A token that is an operand by itself
IsOperandTok(t) ==
    \/ t.tok \in {"Natural", "Decimal", "Roll", "String"}
    \/ /\ t.tok = "Identifier"
       /\ t.name \notin {<<"i", "f">>, <<"t", "h", "e", "n">>, <<"e", "l", "s", "e">>}

AdjacentOperands(toks) ==
    \E i \in 1..(Len(toks) - 1) : IsOperandTok(toks[i]) /\ IsOperandTok(toks[i + 1])

IsCallTok(toks, i) ==
    /\ IsOperandTok(toks[i])
    /\ toks[i].tok = "Identifier"
    /\ i < Len(toks)
    /\ toks[i + 1].tok = "ParenOpen"

\* The nodes of the tree under node id, id included
RECURSIVE Under(_, _)
Under(ast, id) ==
    {id} \cup UNION {Under(ast, Children(Get(ast, id))[i]) :
                        i \in 1..Len(Children(Get(ast, id)))}

NodesOf(ast, kinds) == Cardinality({i \in 1..Len(ast) : ast[i].node \in kinds})

\* Every token has become part of the one tree: the arena is the tree under
\* its start, with a leaf for each operand token, an operator node for each
\* operator token, a Call for each called name, a List for each bracket
\* and an If for each `if`.
OneExpression(toks, ast) ==
    /\ Under(ast, Start(ast)) = 0..(Len(ast) - 1)
    /\ NodesOf(ast, {"Value", "Identifier"})
         = Cardinality({i \in 1..Len(toks) : IsOperandTok(toks[i]) /\ ~IsCallTok(toks, i)})
    /\ NodesOf(ast, {"Call"}) = Cardinality({i \in 1..Len(toks) : IsCallTok(toks, i)})
    /\ NodesOf(ast, {"Binary", "Unary"})
         = Cardinality({i \in 1..Len(toks) : toks[i].tok = "Operator"})
    /\ NodesOf(ast, {"List"})
         = Cardinality({i \in 1..Len(toks) : toks[i].tok = "BracketOpen"})
    /\ NodesOf(ast, {"If"})
         = Cardinality({i \in 1..Len(toks) : toks[i] = TokIdentifier(<<"i", "f">>)})

\* C21: parse returns Ok only when no token is left and the tokens have all
\* gone into one expression; when tokens are left after the expression, as
\* with two operands next to each other or a closing parenthesis or bracket
\* that closes nothing, or when the input ends inside an open parenthesis,
\* bracket or call, parse returns an error and no AST.
C21_ParseConsumesAll ==
    HasReturned =>
        /\ parser.res.status = "ok" =>
              /\ parser.p.input = <<>>
              /\ parser.toks # <<>> => OneExpression(parser.toks, parser.res.ast)
        /\ (\/ parser.p.input # <<>>
            \/ AdjacentOperands(parser.toks)
            \/ UnmatchedClose(parser.toks)
            \/ EndsInside(parser.toks)) => parser.res = Parsed("err", <<>>)

\* parse_first has read an expression and returned Ok with a closing
\* parenthesis left in the input, and parse has returned an error.
C21_Witness ==
    /\ HasReturned
    /\ parser.p.status = "ok"
    /\ parser.p.ast # <<>>
    /\ parser.p.input = <<TokParenClose>>
    /\ UnmatchedClose(parser.toks)
    /\ parser.res = Parsed("err", <<>>)

\* The two cases in which, as claimed, an operator on the stack is reduced
\* by an incoming operator o
MayReduce(top, o) ==
    \/ /\ IsBinary(top)
       /\ IsBinary(o)
       /\ \/ Precedence(top) > Precedence(o)
          \/ Precedence(top) = Precedence(o) /\ LeftAssociative(top)
    \/ /\ IsUnary(top)
       /\ IsBinary(o) \/ IsUnaryPostfix(o)
       /\ Precedence(top) >= Precedence(o)

\* The step calls push_operator, with this operator
Pushing ==
    \/ parser.pc \in {"postfix", "binary"}
    \/ parser.pc = "term" /\ IsPrefixToken(parser.p)

Incoming ==
    IF parser.pc = "term" THEN PrefixOperatorOf(Head(parser.p.input))
    ELSE Head(parser.p.input).o

\* C23 (as claimed): push_operator(op) pops and reduces an operator from the
\* top of the stack only when both are binary and the top has higher
\* precedence, or equal precedence and is left-associative, or when the top
\* is unary, op is binary or postfix and the top's precedence is >= op's; so a
\* binary operator on the stack is never reduced by an incoming postfix one.
C23_PushOperatorReduces ==
    [][Pushing =>
         \A k \in Len(parser'.p.operators)..Len(parser.p.operators) :
             MayReduce(parser.p.operators[k], Incoming)]_vars

\* enum Operator
AllOperators ==
    {"Sentinel", "Assign", "Define", "Discard", "Add", "Sub", "Mul", "Div", "Exp", "Neg",
     "Keep", "Adv", "DisAdv", "Equal", "GreaterThan", "LessThan", "GreaterEqual",
     "LessEqual", "And", "Or", "Not"}

\* The step reads a parenthesised expression as a term
ReadsParenthesised ==
    /\ parser.pc = "term"
    /\ parser.p.input # <<>>
    /\ Head(parser.p.input) = TokParenOpen

\* C30: a Sentinel on the operator stack is never reduced.  greater(Sentinel,
\* op) is false for every operator; the Sentinel pushed by parse_first stays
\* at the bottom of the stack while parse runs; the loop of expr that pops
\* the operators leaves the stack alone when a Sentinel is on top; reading a
\* parenthesised expression keeps every operator pushed before it; and after
\* a successful parse the stack holds the bottom Sentinel and nothing else.
C30_SentinelNeverReduced ==
    /\ [](\A o \in AllOperators : ~Greater("Sentinel", o))
    /\ []((parser.pc # "parse_first" /\ parser.toks # <<>>) =>
             /\ parser.p.operators # <<>>
             /\ parser.p.operators[1] = "Sentinel")
    /\ []((HasReturned /\ parser.res.status = "ok" /\ parser.toks # <<>>) =>
             parser.p.operators = <<"Sentinel">>)
    /\ [][/\ (parser.pc = "drain" /\ Last(parser.p.operators) = "Sentinel") =>
                parser'.p.operators = parser.p.operators
          /\ ReadsParenthesised =>
                /\ Len(parser'.p.operators) >= Len(parser.p.operators)
                /\ SubSeq(parser'.p.operators, 1, Len(parser.p.operators))
                     = parser.p.operators
                /\ parser'.p.status = "ok" =>
                      parser'.p.operators = parser.p.operators]_vars

\* A parenthesised expression in which operators were reduced has been read
\* after an operator, which is still on the stack above the bottom Sentinel.
C30_Witness ==
    /\ parser.pc = "binary"
    /\ parser.p.status = "ok"
    /\ parser.p.operators = <<"Sentinel", "Exp">>
    /\ parser.toks[Len(parser.toks) - Len(parser.p.input)] = TokParenClose
    /\ Get(parser.p.ast, Last(parser.p.operands)).node = "Binary"
    /\ NodesOf(parser.p.ast, {"Binary"}) = 2

\* The step reads a call with its arguments, a list or an if/then/else
ReadsScoped ==
    /\ parser.pc = "term"
    /\ parser.p.input # <<>>
    /\ \/ Head(parser.p.input) = TokBracketOpen
       \/ Head(parser.p.input) = TokIdentifier(<<"i", "f">>)
       \/ /\ Head(parser.p.input).tok = "Identifier"
          /\ Head(parser.p.input).name \notin
                {<<"t", "h", "e", "n">>, <<"e", "l", "s", "e">>,
                 <<"t", "r", "u", "e">>, <<"f", "a", "l", "s", "e">>}
          /\ Len(parser.p.input) >= 2
          /\ parser.p.input[2] = TokParenOpen

\* C24: reading a call with its argument list, a list literal or an
\* if/then/else, whether it succeeds or fails, leaves the enclosing operator
\* stack and the saved scopes as they were; on success the enclosing operand
\* stack has exactly one more entry, the index of the Call, List or If node,
\* and on failure it is as it was.
C24_ScopedTermKeepsStacks ==
    [][ReadsScoped =>
         /\ parser'.p.operators = parser.p.operators
         /\ parser'.p.operators_scopes = parser.p.operators_scopes
         /\ parser'.p.operands_scopes = parser.p.operands_scopes
         /\ IF parser'.p.status = "ok"
            THEN /\ parser'.p.operands
                      = Append(parser.p.operands, Len(parser'.p.ast) - 1)
                 /\ Last(parser'.p.ast).node \in {"Call", "List", "If"}
            ELSE parser'.p.operands = parser.p.operands]_vars

\* After an operand and an operator, a call whose arguments hold a list has
\* been read: its index is the one entry added to the operand stack.
C24_Witness ==
    /\ parser.pc = "binary"
    /\ parser.p.operators = <<"Sentinel", "Add">>
    /\ Len(parser.p.operands) = 2
    /\ Get(parser.p.ast, Last(parser.p.operands)).node = "Call"
    /\ NodesOf(parser.p.ast, {"List"}) = 1
    /\ Len(parser.p.ast) = 5

----------------------------------------------------------------------------
(* SpecTome: parse_tome on a token list, one round of its loop at a time.  *)

\* parser::parse_first: Res<(Ast, &[Token])>, the AST and the tokens left
FirstOf(p) == [status |-> p.status, ast |-> p.ast, rest |-> p.input]

ParseFirstOf(toks) == FirstOf(ParseFirst(NewParser(toks)))

\* usize::saturating_sub
SaturatingSub(a, b) == IF a > b THEN a - b ELSE 0

\* TokenList::truncate: self.tokens = self.tokens.split_off(new_start)
TruncateMut(toks, new_start) == SubSeq(toks, new_start + 2, Len(toks))

Truncate(toks, new_start) == SubSeq(toks, new_start + 1, Len(toks))

\* parse_tome in progress on `toks`: the input left, the statements pushed,
\* and for each the tokens that were dropped from the input after it
Tome(toks, input, statements, runs, status) ==
    [toks |-> toks, input |-> input, statements |-> statements, runs |-> runs,
     status |-> status]

\* One round of the loop, on what parse_first returned
Iterated(t, r) ==
    IF r.status # "ok" THEN Tome(t.toks, t.input, <<>>, t.runs, "err")
    ELSE Tome(t.toks,
              Truncate(t.input, SaturatingSub(Len(t.input), Len(r.rest))),
              Append(t.statements, r.ast),
              Append(t.runs, SubSeq(t.input, 1, SaturatingSub(Len(t.input), Len(r.rest)))),
              "running")

InitTome ==
    /\ scopes = NewContext
    /\ stack = <<>>
    /\ err = FALSE
    /\ ev = NoEvent
    /\ RollIdle
    /\ KeepIdle
    /\ ExprIdle
    /\ LexIdle
    /\ ParseIdle
    /\ ShowIdle
    /\ parser = NotCalled
    /\ tome \in {Tome(toks, toks, <<>>, <<>>, "running") : toks \in TokenLists}
    /\ DumpIdle

TomeFrame ==
    UNCHANGED <<ctxVars, rollVars, keepVars, exprVars, lexVars, parseVars, showVars,
                parser, dumpVars>>

\* while !input.is_empty() { .. }
ParseStatement ==
    /\ tome.status = "running"
    /\ tome.input # <<>>
    /\ tome' = Iterated(tome, ParseFirstOf(tome.input))
    /\ TomeFrame

\* Ok(statements)
ReturnStatements ==
    /\ tome.status = "running"
    /\ tome.input = <<>>
    /\ tome' = [tome EXCEPT !.status = "ok"]
    /\ TomeFrame

NextTome ==
    \/ ParseStatement
    \/ ReturnStatements

\* WF_vars(ParseStatement), with ENABLED <<ParseStatement>>_vars written as
\* the condition of the loop, which is what enables a round of it
ParseStatementFair ==
    \/ []<>(~(tome.status = "running" /\ tome.input # <<>>))
    \/ []<><<ParseStatement>>_vars

\* The loop runs on until it returns.
SpecTome ==
    InitTome /\ [][NextTome]_vars /\ ParseStatementFair /\ WF_vars(ReturnStatements)

----------------------------------------------------------------------------
(* Properties of parse_tome.                                               *)

RECURSIVE Flatten(_)
Flatten(seqs) == IF seqs = <<>> THEN <<>> ELSE Head(seqs) \o Flatten(Tail(seqs))

\* C25: parse_tome terminates on every token list.  Each round of its loop
\* fails or takes at least one token from the input; the statements are
\* parsed from runs of tokens that follow one another in source order
\* without overlap, and when it returns Ok the runs cover the whole list.
C25_ParseTomeTerminates ==
    /\ <>(tome.status \in {"ok", "err"})
    /\ [][tome.input # <<>> =>
            \/ tome'.status = "err"
            \/ Len(tome'.input) < Len(tome.input)]_vars
    /\ [](tome.status # "err" =>
            /\ Flatten(tome.runs) \o tome.input = tome.toks
            /\ Len(tome.statements) = Len(tome.runs)
            /\ \A i \in 1..Len(tome.runs) :
                  /\ tome.runs[i] # <<>>
                  /\ Parse(tome.runs[i]) = Parsed("ok", tome.statements[i]))
    /\ [](tome.status = "ok" => Flatten(tome.runs) = tome.toks)

\* parse_tome has returned three statements read from a list of tokens.
C25_Witness ==
    /\ tome.status = "ok"
    /\ Len(tome.statements) = 3
    /\ Len(tome.runs[1]) > 1
    /\ Len(tome.toks) > 6

----------------------------------------------------------------------------
(* SpecDump: names are bound in the root scope, the Context is dumped to a *)
(* string, and the string is loaded into an empty Context.                 *)

\* Context::dump_to_string: the rendering of the scope is commented out, and
\* the String returned is the empty one the function starts from
DumpToString(s) == [status |-> "ok", chars |-> <<>>]

\* parse_tome, run until it returns
RECURSIVE ParseTomeLoop(_)
ParseTomeLoop(t) ==
    IF t.status # "running" THEN t
    ELSE IF t.input = <<>> THEN [t EXCEPT !.status = "ok"]
    ELSE ParseTomeLoop(Iterated(t, ParseFirstOf(t.input)))

ParseTome(toks) == ParseTomeLoop(Tome(toks, toks, <<>>, <<>>, "running"))

\* A Res<()> with the Context it was evaluated in; "other" is an evaluation
\* that is outside the statements of a dump
Loaded(status, context) == [status |-> status, context |-> context]

\* The name an identifier of the AST has in a scope
IsName(chars) == Len(chars) = 1 /\ chars[1] \in Names

\* define(): the parameters are the identifiers of the call
IsSignature(ast, args) ==
    \A i \in 1..Len(args) :
        /\ args[i] + 1 \in DOMAIN ast
        /\ Get(ast, args[i]).node = "Identifier"

ParametersOf(ast, args) == [i \in 1..Len(args) |-> Get(ast, args[i]).name[1]]

IsNamed(ast, call) ==
    /\ IsName(call.name)
    /\ \A i \in 1..Len(call.args) : IsName(Get(ast, call.args[i]).name)

DefineIn(s, ast, call, definition) ==
    IF ~IsSignature(ast, call.args) THEN Loaded("err", s)
    ELSE IF Subtree(ast, definition).status # "ok" THEN Loaded("err", s)
    ELSE IF ~IsNamed(ast, call) THEN Loaded("other", s)
    ELSE Loaded("ok", DefineFunction(s, GLOBAL_SCOPE, call.name[1],
                                     Subtree(ast, definition).ast,
                                     ParametersOf(ast, call.args)))

\* assign(), of a definition that is a natural literal
SetIn(s, name, r) ==
    IF r.status # "ok" THEN Loaded(r.status, s)
    ELSE IF ~IsName(name) \/ r.outcome.value.tag # "Natural" THEN Loaded("other", s)
    ELSE Loaded("ok", SetVariable(s, GLOBAL_SCOPE, name[1], r.outcome.value.result))

AssignIn(s, ast, destination, definition) ==
    IF destination + 1 \notin DOMAIN ast THEN Loaded("err", s)
    ELSE IF Get(ast, destination).node = "Identifier"
    THEN SetIn(s, Get(ast, destination).name, EvaluateAt(ast, definition))
    ELSE IF Get(ast, destination).node = "Call"
    THEN DefineIn(s, ast, Get(ast, destination), definition)
    ELSE Loaded("err", s)

\* evaluate, of a statement: an assignment binds a name in the Context
EvaluateIn(s, ast) ==
    IF ast = <<>> THEN Loaded("err", s)
    ELSE IF Get(ast, Start(ast)).node = "Binary" /\ Get(ast, Start(ast)).o = "Assign"
    THEN AssignIn(s, ast, Get(ast, Start(ast)).lhs, Get(ast, Start(ast)).rhs)
    ELSE Loaded("other", s)

\* evaluate_tome: the statements are evaluated in order, each with `?`
RECURSIVE EvaluateTome(_, _)
EvaluateTome(statements, r) ==
    IF r.status # "ok" \/ statements = <<>> THEN r
    ELSE EvaluateTome(Tail(statements), EvaluateIn(r.context, Head(statements)))

\* main.rs eval_tome: tokenise(input)?, parse_tome(tokens)?, evaluate_tome
EvalTomeParsed(t, s) ==
    IF t.status # "ok" THEN Loaded("err", s)
    ELSE EvaluateTome(t.statements, Loaded("ok", s))

EvalTome(chars, s) ==
    IF Tokenise(chars, "release").status # "ok" THEN Loaded("err", s)
    ELSE EvalTomeParsed(ParseTome(Toks(Tokenise(chars, "release").tokens)), s)

\* load(): eval_tome(&text, &mut context) with context = Context::empty()
Load(chars) == EvalTome(chars, NewContext)

InitDump ==
    /\ scopes = NewContext
    /\ stack = <<>>
    /\ err = FALSE
    /\ ev = NoEvent
    /\ RollIdle
    /\ KeepIdle
    /\ ExprIdle
    /\ LexIdle
    /\ ParseIdle
    /\ ShowIdle
    /\ SyntaxIdle
    /\ DumpIdle

DumpFrame ==
    UNCHANGED <<stack, err, ev, rollVars, keepVars, exprVars, lexVars, parseVars,
                showVars, syntaxVars>>

\* `name = v` at the prompt: context.set_variable in the global scope
BindVariable ==
    /\ dumped = NotCalled
    /\ \E n \in VarNames, v \in 0..MaxVal :
            scopes' = SetVariable(scopes, GLOBAL_SCOPE, n, v)
    /\ UNCHANGED dumpVars
    /\ DumpFrame

\* `name(..) = body` at the prompt: context.define_function
BindFunction ==
    /\ dumped = NotCalled
    /\ \E d \in Definitions :
            scopes' = DefineFunction(scopes, GLOBAL_SCOPE, d.name, d.body, d.params)
    /\ UNCHANGED dumpVars
    /\ DumpFrame

\* save(): context.dump_to_string()? is written to the file
Save ==
    /\ dumped = NotCalled
    /\ dumped' = DumpToString(scopes)
    /\ UNCHANGED <<scopes, loaded>>
    /\ DumpFrame

\* load(): the file is read and evaluated
LoadSaved ==
    /\ dumped # NotCalled
    /\ dumped.status = "ok"
    /\ loaded = NotCalled
    /\ loaded' = Load(dumped.chars)
    /\ UNCHANGED <<scopes, dumped>>
    /\ DumpFrame

NextDump ==
    \/ BindVariable
    \/ BindFunction
    \/ Save
    \/ LoadSaved

SpecDump == InitDump /\ [][NextDump]_vars

\* The names bound in the root scope, each with the kind of its object
RootNames(s) ==
    {<<n, At(s, GLOBAL_SCOPE).objects[n].kind>> :
        n \in {m \in Names : ContainsKey(At(s, GLOBAL_SCOPE), m)}}

\* C22: the dumped text names every variable and function bound in the root
\* scope, and loading it into an empty Context gives a Context whose root
\* scope binds the same names, variables as variables and functions as
\* functions.
C22_DumpReloads ==
    /\ dumped # NotCalled =>
            /\ dumped.status = "ok"
            /\ \A b \in RootNames(scopes) : b[1] \in Range(dumped.chars)
    /\ loaded # NotCalled =>
            /\ loaded.status = "ok"
            /\ RootNames(loaded.context) = RootNames(scopes)

====
